---- MODULE Spec2Model ----
(***************************************************************************)
(* Model of the TIXBUSTER voucher testing engine (src/src/tester.py):      *)
(* VoucherTester.test_voucher, check_rate_limit, adaptive_delay,           *)
(* _update_results, test_batch in its single-threaded and its thread-pool  *)
(* form.  HTTP responses are values drawn from finite tables; strings are  *)
(* TLA+ strings and the Python string operations the code applies to them  *)
(* (lower(), the "in" substring test, split(), int()) are computed         *)
(* character by character.                                                 *)
(***************************************************************************)
EXTENDS Integers, Sequences, FiniteSets, TLC

(***************************************************************************)
(* Bounds of the model.                                                    *)
(***************************************************************************)
\* longest candidate list handed to one test_batch call
MaxCodes == 2

\* most calls of adaptive_delay on one engine
MaxRequests == 205

\* largest threads argument of an engine whose delays are computed
MaxThreads == 4

(***************************************************************************)
(* Python string operations.                                               *)
(***************************************************************************)
UpperAlpha == "ABCDEFGHIJKLMNOPQRSTUVWXYZ"
LowerAlpha == "abcdefghijklmnopqrstuvwxyz"
Digits == "0123456789"

\* 1-based position of the one-character string c in s, 0 when absent
IndexOf(c, s) ==
  IF \E i \in 1..Len(s) : SubSeq(s, i, i) = c
  THEN CHOOSE i \in 1..Len(s) :
         /\ SubSeq(s, i, i) = c
         /\ \A j \in 1..(i - 1) : SubSeq(s, j, j) # c
  ELSE 0

LowerChar(c) ==
  LET at == IndexOf(c, UpperAlpha)
  IN  IF at > 0 THEN SubSeq(LowerAlpha, at, at) ELSE c

\* str.lower(), from the character at position i on
RECURSIVE LowerFrom(_, _)
LowerFrom(s, i) ==
  IF i > Len(s) THEN ""
  ELSE LowerChar(SubSeq(s, i, i)) \o LowerFrom(s, i + 1)

\* str.lower()
Lower(s) == LowerFrom(s, 1)

\* needle in hay (needle non-empty)
Contains(needle, hay) ==
  \E i \in 1..(Len(hay) - Len(needle) + 1) :
    SubSeq(hay, i, i + Len(needle) - 1) = needle

\* position of the first occurrence of sep in s, 0 when there is none
Find(sep, s) ==
  IF Contains(sep, s)
  THEN CHOOSE i \in 1..(Len(s) - Len(sep) + 1) :
         /\ SubSeq(s, i, i + Len(sep) - 1) = sep
         /\ \A j \in 1..(i - 1) : SubSeq(s, j, j + Len(sep) - 1) # sep
  ELSE 0

\* s.split(sep)[0]
SplitHead(s, sep) ==
  IF Find(sep, s) = 0 THEN s ELSE SubSeq(s, 1, Find(sep, s) - 1)

\* what follows the first occurrence of sep in s (sep occurs in s)
AfterFirst(s, sep) == SubSeq(s, Find(sep, s) + Len(sep), Len(s))

\* s.split(sep)[1] (sep occurs in s)
SplitSecond(s, sep) == SplitHead(AfterFirst(s, sep), sep)

\* int(s): [ok |-> FALSE] stands for ValueError.  Optional sign, then digits.
RECURSIVE DigitsValue(_, _)
DigitsValue(s, acc) ==
  IF Len(s) = 0 THEN acc
  ELSE DigitsValue(SubSeq(s, 2, Len(s)),
                   acc * Len(Digits) + (IndexOf(SubSeq(s, 1, 1), Digits) - 1))

AllDigits(s) ==
  /\ Len(s) > 0
  /\ \A i \in 1..Len(s) : IndexOf(SubSeq(s, i, i), Digits) > 0

PyInt(s) ==
  LET signed == Len(s) > 0 /\ SubSeq(s, 1, 1) \in {"-", "+"}
      body   == IF signed THEN SubSeq(s, 2, Len(s)) ELSE s
  IN  IF AllDigits(body)
      THEN [ok |-> TRUE,
            val |-> IF signed /\ SubSeq(s, 1, 1) = "-"
                    THEN 0 - DigitsValue(body, 0)
                    ELSE DigitsValue(body, 0)]
      ELSE [ok |-> FALSE, val |-> 0]

(***************************************************************************)
(* JSON values and HTTP responses.                                         *)
(***************************************************************************)
\* a JSON value of a field; t = "absent" when the key is not in the object
JStr(s)  == [t |-> "str", s |-> s, n |-> 0]
JNum(n)  == [t |-> "num", s |-> "", n |-> n]
JBool(b) == [t |-> "bool", s |-> "", n |-> IF b THEN 1 ELSE 0]
JNull    == [t |-> "null", s |-> "", n |-> 0]
JAbsent  == [t |-> "absent", s |-> "", n |-> 0]

\* Python truth value of a JSON value (an absent key reads as None)
Truthy(v) ==
  \/ v.t = "str" /\ Len(v.s) > 0
  \/ v.t = "num" /\ v.n # 0
  \/ v.t = "bool" /\ v.n = 1

\* the decoded body of a submit response: kind is "object", "array" (an
\* empty list), "null", or "invalid" when response.json() raises
SubmitDoc(kind, redirect, async_id) ==
  [kind |-> kind, redirect |-> redirect, async_id |-> async_id]

\* the decoded body of a poll response
PollDoc(kind, ready, success, message) ==
  [kind |-> kind, ready |-> ready, success |-> success, message |-> message]

\* a submit response: exc names the exception session.post raised ("" when
\* it returned); rl is the X-RateLimit-Remaining header (JAbsent or JStr);
\* cf tells whether a cf-ray header is present; text is response.text and
\* doc what response.json() makes of it
SubmitResponse(exc, status, rl, cf, text, doc) ==
  [exc |-> exc, status |-> status, rl |-> rl, cf |-> cf, text |-> text, doc |-> doc]

PollResponse(exc, status, doc) == [exc |-> exc, status |-> status, doc |-> doc]

\* placeholders of an attempt that has not (yet) received a response
NoSubmit == SubmitResponse("none", 0, JAbsent, FALSE, "", SubmitDoc("invalid", JAbsent, JAbsent))
NoPoll   == PollResponse("none", 0, PollDoc("invalid", JAbsent, JAbsent, JAbsent))

(***************************************************************************)
(* The detail half of test_voucher's (status, detail) pair.                *)
(***************************************************************************)
DNone        == [t |-> "None", v |-> JNull]
DPoll        == [t |-> "poll_result", v |-> JNull]
DHandle(h)   == [t |-> "async_id", v |-> h]
DMessage(m)  == [t |-> "message", v |-> JStr(m)]
DCode(n)     == [t |-> "status_code", v |-> JNum(n)]
DError(e)    == [t |-> "str(e)", v |-> JStr(e)]

\* every status test_voucher can return
Statuses ==
  {"SUCCESS", "EXPIRED", "NOTFOUND", "INVALID", "USED", "LIMITED", "UNKNOWN",
   "NO_RESPONSE", "ERROR", "EXCEPTION", "RATE_LIMITED"}

(***************************************************************************)
(* check_rate_limit: raises names the exception it raised ("" when none),  *)
(* limited is its return value, flag tells that it set self.rate_limited.  *)
(***************************************************************************)
HTTP_TOO_MANY == 429
HTTP_FORBIDDEN == 403
HTTP_OK == 200
LowWater == 5

RateLimitHeaderLow(r) ==
  r.rl.t # "absent" /\ PyInt(r.rl.s).ok /\ PyInt(r.rl.s).val < LowWater

CloudflareChallenge(r) ==
  (r.status = HTTP_FORBIDDEN \/ r.cf) /\ Contains("challenge", Lower(r.text))

check_rate_limit(r) ==
  IF r.status = HTTP_TOO_MANY
  THEN [raises |-> "", limited |-> TRUE, flag |-> TRUE]
  ELSE IF r.rl.t # "absent" /\ ~PyInt(r.rl.s).ok
  THEN [raises |-> "ValueError", limited |-> FALSE, flag |-> FALSE]
  ELSE IF RateLimitHeaderLow(r)
  THEN [raises |-> "", limited |-> TRUE, flag |-> FALSE]
  ELSE IF CloudflareChallenge(r)
  THEN [raises |-> "", limited |-> TRUE, flag |-> FALSE]
  ELSE [raises |-> "", limited |-> FALSE, flag |-> FALSE]

(***************************************************************************)
(* test_voucher, submit phase (lines 94-120, 173-182).  The result is      *)
(* either final (a status and a detail) or asks for the poll phase with    *)
(* the async_id found.                                                     *)
(***************************************************************************)
Final(status, detail) ==
  [final |-> TRUE, status |-> status, detail |-> detail, async_id |-> JNull]
NeedPoll(h) ==
  [final |-> FALSE, status |-> "", detail |-> DNone, async_id |-> h]

\* lines 113-117: the async_id, or raises (a TypeError of the "in" or the
\* subscript on a value that is no dict, or of a redirect that is no str)
ExtractRaises(doc) ==
  \/ doc.kind = "null"
  \/ doc.kind = "object" /\ doc.redirect.t \notin {"absent", "str"}

ExtractAsyncId(doc) ==
  IF doc.kind = "object" /\ doc.redirect.t = "str" /\ Contains("async_id=", doc.redirect.s)
  THEN JStr(SplitHead(SplitSecond(doc.redirect.s, "async_id="), "&"))
  ELSE IF doc.kind = "object" /\ doc.async_id.t # "absent"
  THEN doc.async_id
  ELSE JNull

\* AfterSubmit without the test of line 109: the body is decoded whatever
\* the status of the response
AfterSubmitIgnoresStatus(r) ==
  IF r.exc # "" THEN Final("EXCEPTION", DError(r.exc))
  ELSE IF check_rate_limit(r).raises # ""
  THEN Final("EXCEPTION", DError(check_rate_limit(r).raises))
  ELSE IF check_rate_limit(r).limited THEN Final("RATE_LIMITED", DNone)
  ELSE IF r.doc.kind = "invalid" THEN Final("EXCEPTION", DError("JSONDecodeError"))
  ELSE IF ExtractRaises(r.doc) THEN Final("EXCEPTION", DError("TypeError"))
  ELSE IF Truthy(ExtractAsyncId(r.doc)) THEN NeedPoll(ExtractAsyncId(r.doc))
  ELSE Final("NO_RESPONSE", DNone)

\* AfterSubmit with line 122 reading "if async_id is not None"
AfterSubmitHandleNotNone(r) ==
  IF r.exc # "" THEN Final("EXCEPTION", DError(r.exc))
  ELSE IF check_rate_limit(r).raises # ""
  THEN Final("EXCEPTION", DError(check_rate_limit(r).raises))
  ELSE IF check_rate_limit(r).limited THEN Final("RATE_LIMITED", DNone)
  ELSE IF r.status = HTTP_OK
  THEN IF r.doc.kind = "invalid" THEN Final("EXCEPTION", DError("JSONDecodeError"))
       ELSE IF ExtractRaises(r.doc) THEN Final("EXCEPTION", DError("TypeError"))
       ELSE IF ExtractAsyncId(r.doc) # JNull THEN NeedPoll(ExtractAsyncId(r.doc))
       ELSE Final("NO_RESPONSE", DNone)
  ELSE Final("ERROR", DCode(r.status))

AfterSubmit(r) ==
  IF r.exc # "" THEN Final("EXCEPTION", DError(r.exc))
  ELSE IF check_rate_limit(r).raises # ""
  THEN Final("EXCEPTION", DError(check_rate_limit(r).raises))
  ELSE IF check_rate_limit(r).limited THEN Final("RATE_LIMITED", DNone)
  ELSE IF r.status = HTTP_OK
  THEN IF r.doc.kind = "invalid" THEN Final("EXCEPTION", DError("JSONDecodeError"))
       ELSE IF ExtractRaises(r.doc) THEN Final("EXCEPTION", DError("TypeError"))
       ELSE IF Truthy(ExtractAsyncId(r.doc)) THEN NeedPoll(ExtractAsyncId(r.doc))
       ELSE Final("NO_RESPONSE", DNone)
  ELSE Final("ERROR", DCode(r.status))

\* self.rate_limited after the submit phase (lines 53, 104)
RateLimitedAfter(flag, r) ==
  IF r.exc # "" THEN flag
  ELSE flag \/ check_rate_limit(r).flag
            \/ (check_rate_limit(r).raises = "" /\ check_rate_limit(r).limited)

(***************************************************************************)
(* test_voucher, classification of the poll result (lines 133-173).        *)
(***************************************************************************)
\* ClassifyMessage with the substring tests made on the message as received
ClassifyMessageCaseSensitive(message) ==
  IF Contains("expired", message) THEN "EXPIRED"
  ELSE IF Contains("not known in our database", message) THEN "NOTFOUND"
  ELSE IF Contains("invalid", message) \/ Contains("not found", message) THEN "INVALID"
  ELSE IF Contains("already", message) \/ Contains("used", message)
          \/ Contains("redeemed", message)
  THEN "USED"
  ELSE IF Contains("limit", message) \/ Contains("maximum", message) THEN "LIMITED"
  ELSE "UNKNOWN"

\* lines 148-171, on the message and its lower-cased form
ClassifyMessage(message) ==
  LET low == Lower(message) IN
  IF Contains("expired", low) THEN "EXPIRED"
  ELSE IF Contains("not known in our database", low) THEN "NOTFOUND"
  ELSE IF Contains("invalid", low) \/ Contains("not found", low) THEN "INVALID"
  ELSE IF Contains("already", low) \/ Contains("used", low) \/ Contains("redeemed", low)
  THEN "USED"
  ELSE IF Contains("limit", low) \/ Contains("maximum", low) THEN "LIMITED"
  ELSE "UNKNOWN"

\* GetMessage without the default: poll_result.get('message')
GetMessageNoDefault(doc) == doc.message

\* poll_result.get('message', '')
GetMessage(doc) == IF doc.message.t = "absent" THEN JStr("") ELSE doc.message

\* AfterPoll under "except requests.RequestException": an error of decoding
\* or reading the poll result leaves test_voucher as an exception
AfterPollNarrowExcept(p, async_id) ==
  IF p.exc # "" THEN [status |-> "EXCEPTION", detail |-> DError(p.exc)]
  ELSE IF p.status = HTTP_OK
  THEN IF p.doc.kind # "object" THEN [status |-> "<raised>", detail |-> DNone]
       ELSE IF Truthy(p.doc.success) THEN [status |-> "SUCCESS", detail |-> DPoll]
       ELSE IF GetMessage(p.doc).t # "str" THEN [status |-> "<raised>", detail |-> DNone]
       ELSE IF ClassifyMessage(GetMessage(p.doc).s) = "EXPIRED"
       THEN [status |-> "EXPIRED", detail |-> DHandle(async_id)]
       ELSE [status |-> ClassifyMessage(GetMessage(p.doc).s),
             detail |-> DMessage(GetMessage(p.doc).s)]
  ELSE [status |-> "NO_RESPONSE", detail |-> DNone]

\* AfterPoll that takes a poll result with ready = false as no result yet
AfterPollWaitsForReady(p, async_id) ==
  IF p.exc # "" THEN [status |-> "EXCEPTION", detail |-> DError(p.exc)]
  ELSE IF p.status = HTTP_OK
  THEN IF p.doc.kind = "invalid"
       THEN [status |-> "EXCEPTION", detail |-> DError("JSONDecodeError")]
       ELSE IF p.doc.kind # "object"
       THEN [status |-> "EXCEPTION", detail |-> DError("AttributeError")]
       ELSE IF p.doc.ready = JBool(FALSE) THEN [status |-> "NO_RESPONSE", detail |-> DNone]
       ELSE IF Truthy(p.doc.success) THEN [status |-> "SUCCESS", detail |-> DPoll]
       ELSE IF GetMessage(p.doc).t # "str"
       THEN [status |-> "EXCEPTION", detail |-> DError("AttributeError")]
       ELSE IF ClassifyMessage(GetMessage(p.doc).s) = "EXPIRED"
       THEN [status |-> "EXPIRED", detail |-> DHandle(async_id)]
       ELSE [status |-> ClassifyMessage(GetMessage(p.doc).s),
             detail |-> DMessage(GetMessage(p.doc).s)]
  ELSE [status |-> "NO_RESPONSE", detail |-> DNone]

AfterPoll(p, async_id) ==
  IF p.exc # "" THEN [status |-> "EXCEPTION", detail |-> DError(p.exc)]
  ELSE IF p.status = HTTP_OK
  THEN IF p.doc.kind = "invalid"
       THEN [status |-> "EXCEPTION", detail |-> DError("JSONDecodeError")]
       ELSE IF p.doc.kind # "object"
       THEN [status |-> "EXCEPTION", detail |-> DError("AttributeError")]
       ELSE IF Truthy(p.doc.success) THEN [status |-> "SUCCESS", detail |-> DPoll]
       ELSE IF GetMessage(p.doc).t # "str"
       THEN [status |-> "EXCEPTION", detail |-> DError("AttributeError")]
       ELSE IF ClassifyMessage(GetMessage(p.doc).s) = "EXPIRED"
       THEN [status |-> "EXPIRED", detail |-> DHandle(async_id)]
       ELSE [status |-> ClassifyMessage(GetMessage(p.doc).s),
             detail |-> DMessage(GetMessage(p.doc).s)]
  ELSE [status |-> "NO_RESPONSE", detail |-> DNone]

(***************************************************************************)
(* The responses the remote endpoint is taken to give.                     *)
(***************************************************************************)
\* bodies of a submit response, each with what response.json() makes of it
SubmitBodies ==
  { [text |-> "{\"redirect\": \"/cart/voucher?async_id=a1&ajax=1\"}",
     doc  |-> SubmitDoc("object", JStr("/cart/voucher?async_id=a1&ajax=1"), JAbsent)],
    [text |-> "{\"async_id\": \"b2\"}",
     doc  |-> SubmitDoc("object", JAbsent, JStr("b2"))],
    [text |-> "{\"redirect\": \"/cart/\", \"async_id\": \"c3\"}",
     doc  |-> SubmitDoc("object", JStr("/cart/"), JStr("c3"))],
    [text |-> "{\"redirect\": \"/Challenge?async_id=d4\"}",
     doc  |-> SubmitDoc("object", JStr("/Challenge?async_id=d4"), JAbsent)],
    [text |-> "{\"async_id\": 7}",
     doc  |-> SubmitDoc("object", JAbsent, JNum(7))],
    [text |-> "{}",
     doc  |-> SubmitDoc("object", JAbsent, JAbsent)],
    [text |-> "{\"async_id\": \"\"}",
     doc  |-> SubmitDoc("object", JAbsent, JStr(""))],
    [text |-> "{\"async_id\": null}",
     doc  |-> SubmitDoc("object", JAbsent, JNull)],
    [text |-> "{\"redirect\": \"/cart/voucher?async_id=&ajax=1\"}",
     doc  |-> SubmitDoc("object", JStr("/cart/voucher?async_id=&ajax=1"), JAbsent)],
    [text |-> "{\"redirect\": null}",
     doc  |-> SubmitDoc("object", JNull, JAbsent)],
    [text |-> "[]",
     doc  |-> SubmitDoc("array", JAbsent, JAbsent)],
    [text |-> "null",
     doc  |-> SubmitDoc("null", JAbsent, JAbsent)],
    [text |-> "<html>Just a moment... CHALLENGE</html>",
     doc  |-> SubmitDoc("invalid", JAbsent, JAbsent)],
    [text |-> "<html>Forbidden</html>",
     doc  |-> SubmitDoc("invalid", JAbsent, JAbsent)] }

SubmitStatuses == {200, 403, 429, 500}
RateHeaders == {JAbsent, JStr("0"), JStr("4"), JStr("5"), JStr("soon")}
TransportErrors == {"Timeout", "ConnectionError"}

SubmitResponses ==
  { SubmitResponse(e, 0, JAbsent, FALSE, "", SubmitDoc("invalid", JAbsent, JAbsent)) :
      e \in TransportErrors }
  \cup
  { SubmitResponse("", st, rl, cf, b.text, b.doc) :
      st \in SubmitStatuses, rl \in RateHeaders, cf \in BOOLEAN, b \in SubmitBodies }

\* message texts: the words the classifier looks for, in several letter
\* cases, alone and in pairs
Fragments ==
  {"expired", "EXPIRED", "not known in our database", "Invalid", "Not Found",
   "already", "Used", "redeemed", "limit", "MAXIMUM", "ok"}

Messages ==
  {""} \cup Fragments \cup { a \o " " \o b : a \in Fragments, b \in Fragments }

PollDocs ==
  { PollDoc(k, JAbsent, JAbsent, JAbsent) : k \in {"invalid", "array", "null"} }
  \cup
  { PollDoc("object", JBool(rd), su, m) :
      rd \in BOOLEAN,
      su \in {JAbsent, JBool(FALSE), JBool(TRUE)},
      m  \in {JAbsent, JNull} \cup { JStr(t) : t \in Messages } }

PollStatuses == {200, 500}

PollResponses ==
  { PollResponse(e, 0, PollDoc("invalid", JAbsent, JAbsent, JAbsent)) :
      e \in TransportErrors }
  \cup
  { PollResponse("", st, d) : st \in PollStatuses, d \in PollDocs }

\* The responses drawn for the attempts of a batch.  A run is made against
\* one of three behaviours of the remote endpoint, which together produce
\* every status test_voucher can return.
RemoteProfiles == {"failing", "vouchers", "unrecognised"}

Handle == SubmitResponse("", 200, JAbsent, FALSE, "{\"async_id\": \"b2\"}",
                         SubmitDoc("object", JAbsent, JStr("b2")))
Bare(exc, status, text, kind) ==
  SubmitResponse(exc, status, JAbsent, FALSE, text, SubmitDoc(kind, JAbsent, JAbsent))
Answer(success, message) ==
  PollResponse("", 200, PollDoc("object", JBool(TRUE), success, message))

BatchSubmitResponses(profile) ==
  IF profile = "failing"
  THEN {Bare("Timeout", 0, "", "invalid"), Bare("", 429, "", "invalid"),
        Bare("", 500, "", "invalid"), Bare("", 200, "{}", "object"), Handle}
  ELSE IF profile = "vouchers"
  THEN {Bare("", 429, "", "invalid"), Handle}
  ELSE {Handle}

BatchPollResponses(profile) ==
  IF profile = "failing"
  THEN {Answer(JBool(TRUE), JAbsent)}
  ELSE IF profile = "vouchers"
  THEN {Answer(JBool(TRUE), JAbsent),
        Answer(JBool(FALSE), JStr("Voucher EXPIRED")),
        Answer(JBool(FALSE), JStr("already used")),
        Answer(JBool(FALSE), JStr("limit reached"))}
  ELSE {Answer(JBool(FALSE), JStr("not known in our database")),
        Answer(JBool(FALSE), JStr("Invalid code")),
        Answer(JBool(FALSE), JStr("")),
        Answer(JAbsent, JAbsent),
        Answer(JBool(FALSE), JStr("Voucher EXPIRED"))}

(***************************************************************************)
(* State.                                                                  *)
(***************************************************************************)
\* candidate strings of the remote, and the control voucher of
\* SessionManager.validate_session
Codes == {"A", "B"}
ControlCode == "IMDARK"
AllCodes == Codes \cup {ControlCode}

\* values of the threads argument of VoucherTester
ThreadChoices == {1, 2}

VARIABLES
  threads,        \* VoucherTester.threads
  rate_limited,   \* VoucherTester.rate_limited
  request_count,  \* VoucherTester.request_count
  tested_codes,   \* VoucherTester.tested_codes
  pc,             \* where the caller of the engine is: "idle", "single",
                  \* "threaded" (inside test_batch), "validate" (inside the
                  \* control test of validate_session)
  input,          \* the codes argument of the current test_batch call
  codes,          \* single mode: codes; threaded mode: codes_to_test
  i,              \* single mode: index of the for loop (1-based)
  results,        \* the results dict of the current (or last) test_batch call
  attempts,       \* one record per element of codes: the state of its attempt
  remote,         \* the behaviour of the remote endpoint in this run
  invoked,        \* per candidate: calls of test_voucher so far
  posts,          \* per candidate: submit POSTs issued so far
  gets,           \* per candidate: poll GETs issued so far
  recorded_prior, \* candidates recorded by test_batch calls that have returned
  last_sleep,     \* the delay adaptive_delay computed for the latest
                  \* time.sleep, before jitter (NoSleep when none was taken)
  console,        \* the candidates of the "VALID CODE FOUND" lines printed
                  \* during the current (or last) test_batch call, in order
  lock,           \* VoucherTester.lock: "free", or the thread that holds it
  session,        \* the session object the caller passes to the engine
  command,        \* the run of main.py's test command: the statement it
                  \* has reached and the exit status of the process
  crawl           \* the current crawl_event call of EventScraper: its
                  \* arguments, the closure variables of crawl_page and the
                  \* stack of crawl_page calls

vars ==
  <<threads, rate_limited, request_count, tested_codes, pc, input, codes, i,
    results, attempts, remote, invoked, posts, gets, recorded_prior, last_sleep,
    console, lock, session, command, crawl>>

\* no statement of cmd_test after its call of validate_and_exit_if_invalid
\* (main.py:93) has been reached, the process has not exited
NoCommand == [at |-> "", exit |-> -1]

\* no crawl_event call has been made
NoCrawl ==
  [at |-> "idle", site |-> "none", max_depth |-> 0, visited |-> {},
   stack |-> <<>>, fetched |-> <<>>, revisits |-> {}]

\* session.py:61-71: the session the caller built, with its cookies
CallerCookies == {"__Host-pretix_csrftoken", "__Host-pretix_session", "cf_clearance"}

CallerSession == [id |-> "caller", cookies |-> CallerCookies]

\* no session object yet
NoSession == [id |-> "none", cookies |-> {}]

\* ThreadSession that hands the caller's session to the worker
ThreadSessionShared(k, caller) == caller

\* lines 284-286: a new requests.Session, named after the job it is made
\* for, that receives copies of the cookies of the caller's session
ThreadSession(k, caller) == [id |-> ToString(k), cookies |-> caller.cookies]

\* no pool thread, or not told apart
NoWorker == "none"

\* the state of one attempt.  phase: "queued" (not started), "skipped"
\* (single mode: already tested), "new" (test_voucher entered, nothing sent),
\* "sleep" (submit answered with an async_id, poll not yet sent), "returned"
\* (test_voucher returned status, detail), "raised" (the worker wrapper
\* raised), "recorded" (_update_results ran), "dropped" (the exception of a
\* raised future was printed).  session is the session argument of
\* test_voucher, post_via and get_via name the session objects that carried
\* the POST and the GET, worker the pool thread that runs the job where the
\* threads of the pool are told apart.  Where the statements of a "with
\* self.lock" block are told apart, at is the statement of the block the
\* thread has executed ("" outside a block), reg the counter value loaded by
\* "self.request_count += 1" and count the local variable of adaptive_delay
Attempt(code, phase) ==
  [code |-> code, phase |-> phase, sub |-> NoSubmit, poll |-> NoPoll,
   async_id |-> JNull, status |-> "", detail |-> DNone,
   session |-> NoSession, post_via |-> NoSession.id, get_via |-> NoSession.id,
   worker |-> NoWorker, at |-> "", reg |-> 0, count |-> 0]

EmptyResults ==
  [SUCCESS |-> <<>>, EXPIRED |-> <<>>, USED |-> <<>>, LIMITED |-> <<>>,
   UNKNOWN |-> <<>>, NOTFOUND |-> <<>>, tested |-> 0]

ListedStatuses == {"SUCCESS", "EXPIRED", "USED", "LIMITED", "UNKNOWN", "NOTFOUND"}

(***************************************************************************)
(* The two network steps of test_voucher on an attempt record.             *)
(***************************************************************************)
\* SubmitStep that sends the POST again when session.post raised
SubmitStepRetries(a, r) ==
  IF r.exc # "" THEN [a EXCEPT !.sub = r, !.post_via = a.session.id]
  ELSE IF AfterSubmit(r).final
  THEN [a EXCEPT !.phase = "returned", !.sub = r, !.post_via = a.session.id,
                 !.status = AfterSubmit(r).status, !.detail = AfterSubmit(r).detail]
  ELSE [a EXCEPT !.phase = "sleep", !.sub = r, !.post_via = a.session.id,
                 !.async_id = AfterSubmit(r).async_id]

\* lines 95-120: the POST and what follows it up to the poll delay
SubmitStep(a, r) ==
  LET out == AfterSubmit(r)
  IN  IF out.final
      THEN [a EXCEPT !.phase = "returned", !.sub = r, !.post_via = a.session.id,
                     !.status = out.status, !.detail = out.detail]
      ELSE [a EXCEPT !.phase = "sleep", !.sub = r, !.post_via = a.session.id,
                     !.async_id = out.async_id]

\* lines 124-173: the GET and the classification of its answer
PollStep(a, p) ==
  LET out == AfterPoll(p, a.async_id)
  IN  [a EXCEPT !.phase = "returned", !.poll = p, !.get_via = a.session.id,
                !.status = out.status, !.detail = out.detail]

\* lines 29-31: adaptive_delay's increment of the shared counter
CountRequest(count) == count + 1

\* lines 33-48: the delay adaptive_delay returns for the counter value it
\* read, in milliseconds and as the fraction num/den; the jitter of line 46
\* adds between 0 and JitterMax milliseconds to it
DelayBase == 500
DelayMany == 1000
DelayMost == 2000
ManyRequests == 100
MostRequests == 200
JitterMax == 300

\* BaseDelay that steps up when the counter reaches a threshold
BaseDelayAtThreshold(count) ==
  IF count >= MostRequests THEN DelayMost
  ELSE IF count >= ManyRequests THEN DelayMany
  ELSE DelayBase

BaseDelay(count) ==
  IF count > MostRequests THEN DelayMost
  ELSE IF count > ManyRequests THEN DelayMany
  ELSE DelayBase

\* AdaptiveDelay that does not share the delay among the workers
AdaptiveDelayUndivided(count, n) == [num |-> BaseDelay(count), den |-> 1]

AdaptiveDelay(count, n) == [num |-> BaseDelay(count), den |-> n]

\* no time.sleep has been called yet
NoSleep == [num |-> 0, den |-> 1]

Bump(f, c) == [f EXCEPT ![c] = @ + 1]

(***************************************************************************)
(* One test_voucher call on a fresh VoucherTester: the control test of     *)
(* SessionManager.validate_session.                                        *)
(***************************************************************************)
InitTV ==
  /\ threads = 1
  /\ rate_limited = FALSE
  /\ request_count = 0
  /\ tested_codes = {}
  /\ pc = "validate"
  /\ input = <<ControlCode>>
  /\ codes = <<ControlCode>>
  /\ i = 1
  /\ results = EmptyResults
  /\ attempts = <<[Attempt(ControlCode, "new") EXCEPT !.session = CallerSession]>>
  /\ remote = "any"
  /\ invoked = [c \in AllCodes |-> IF c = ControlCode THEN 1 ELSE 0]
  /\ posts = [c \in AllCodes |-> 0]
  /\ gets = [c \in AllCodes |-> 0]
  /\ recorded_prior = {}
  /\ last_sleep = NoSleep
  /\ console = <<>>
  /\ lock = "free"
  /\ session = CallerSession
  /\ command = NoCommand
  /\ crawl = NoCrawl

\* the POST of attempt k, answered by r
DoSubmit(k, r) ==
  /\ attempts[k].phase = "new"
  /\ attempts' = [attempts EXCEPT ![k] = SubmitStep(@, r)]
  /\ rate_limited' = RateLimitedAfter(rate_limited, r)
  /\ posts' = Bump(posts, attempts[k].code)
  /\ UNCHANGED <<crawl, command, console, lock, session, threads, last_sleep, request_count, tested_codes, pc, input, codes, i, results,
                 remote, invoked, gets, recorded_prior>>

\* the adaptive delay and the GET of attempt k, answered by p
DoPoll(k, p) ==
  /\ attempts[k].phase = "sleep"
  /\ request_count' = CountRequest(request_count)
  /\ attempts' = [attempts EXCEPT ![k] = PollStep(@, p)]
  /\ gets' = Bump(gets, attempts[k].code)
  /\ last_sleep' = AdaptiveDelay(CountRequest(request_count), threads)
  /\ UNCHANGED <<crawl, command, console, lock, session, threads, rate_limited, tested_codes, pc, input, codes, i, results,
                 remote, invoked, posts, recorded_prior>>

TVSubmit == pc = "validate" /\ \E r \in SubmitResponses : DoSubmit(1, r)

TVPoll == pc = "validate" /\ \E p \in PollResponses : DoPoll(1, p)

NextTV == TVSubmit \/ TVPoll

SpecTV == InitTV /\ [][NextTV]_vars

(***************************************************************************)
(* _update_results (lines 184-211).                                        *)
(***************************************************************************)
\* AppendTo with the USED branch appending to the EXPIRED list
AppendToWrongList(res, status, code) ==
  IF status = "SUCCESS" THEN [res EXCEPT !.SUCCESS = Append(@, code)]
  ELSE IF status = "EXPIRED" THEN [res EXCEPT !.EXPIRED = Append(@, code)]
  ELSE IF status = "USED" THEN [res EXCEPT !.EXPIRED = Append(@, code)]
  ELSE IF status = "LIMITED" THEN [res EXCEPT !.LIMITED = Append(@, code)]
  ELSE IF status = "UNKNOWN" THEN [res EXCEPT !.UNKNOWN = Append(@, code)]
  ELSE IF status = "NOTFOUND" THEN [res EXCEPT !.NOTFOUND = Append(@, code)]
  ELSE res

\* AppendTo that puts the candidate at the head of its list
AppendToFront(res, status, code) ==
  IF status = "SUCCESS" THEN [res EXCEPT !.SUCCESS = <<code>> \o @]
  ELSE IF status = "EXPIRED" THEN [res EXCEPT !.EXPIRED = <<code>> \o @]
  ELSE IF status = "USED" THEN [res EXCEPT !.USED = <<code>> \o @]
  ELSE IF status = "LIMITED" THEN [res EXCEPT !.LIMITED = <<code>> \o @]
  ELSE IF status = "UNKNOWN" THEN [res EXCEPT !.UNKNOWN = <<code>> \o @]
  ELSE IF status = "NOTFOUND" THEN [res EXCEPT !.NOTFOUND = <<code>> \o @]
  ELSE res

AppendTo(res, status, code) ==
  IF status = "SUCCESS" THEN [res EXCEPT !.SUCCESS = Append(@, code)]
  ELSE IF status = "EXPIRED" THEN [res EXCEPT !.EXPIRED = Append(@, code)]
  ELSE IF status = "USED" THEN [res EXCEPT !.USED = Append(@, code)]
  ELSE IF status = "LIMITED" THEN [res EXCEPT !.LIMITED = Append(@, code)]
  ELSE IF status = "UNKNOWN" THEN [res EXCEPT !.UNKNOWN = Append(@, code)]
  ELSE IF status = "NOTFOUND" THEN [res EXCEPT !.NOTFOUND = Append(@, code)]
  ELSE res

\* UpdateResults counting only the candidates it appends to a list
UpdateResultsCountsListed(res, code, status) ==
  IF status \in ListedStatuses
  THEN AppendTo([res EXCEPT !.tested = @ + 1], status, code)
  ELSE res

UpdateResults(res, code, status) ==
  AppendTo([res EXCEPT !.tested = @ + 1], status, code)

\* Report that prints nothing while the batch runs
ReportNothing(out, code, status) == out

\* lines 190-192: the "VALID CODE FOUND" line, printed inside _update_results
Report(out, code, status) ==
  IF status = "SUCCESS" THEN Append(out, code) ELSE out

\* AddTested that leaves the set as it was
AddTestedForgets(tested, code) == tested

\* line 188
AddTested(tested, code) == tested \cup {code}

\* candidates for which _update_results ran during the current call
RecordedNow == {attempts[k].code : k \in {j \in 1..Len(attempts) : attempts[j].phase = "recorded"}}

(***************************************************************************)
(* test_batch (lines 213-218) and its two forms.                           *)
(***************************************************************************)
CodeLists == UNION {[1..n -> Codes] : n \in 0..MaxCodes}

InTested(tested, c) == c \in tested

\* line 273
CodesToTest(cs, tested) == SelectSeq(cs, LAMBDA c : ~InTested(tested, c))

Queue(cs) == [k \in 1..Len(cs) |-> Attempt(cs[k], "queued")]

Init ==
  /\ threads \in ThreadChoices
  /\ rate_limited = FALSE
  /\ request_count = 0
  /\ tested_codes = {}
  /\ pc = "idle"
  /\ input = <<>>
  /\ codes = <<>>
  /\ i = 1
  /\ results = EmptyResults
  /\ attempts = <<>>
  /\ remote \in RemoteProfiles
  /\ invoked = [c \in AllCodes |-> 0]
  /\ posts = [c \in AllCodes |-> 0]
  /\ gets = [c \in AllCodes |-> 0]
  /\ recorded_prior = {}
  /\ last_sleep = NoSleep
  /\ console = <<>>
  /\ lock = "free"
  /\ session = CallerSession
  /\ command = NoCommand
  /\ crawl = NoCrawl

\* test_batch called with cs, threads = 1: up to the for loop
TestBatchSingle(cs) ==
  /\ pc = "idle" /\ ~(threads > 1)
  /\ pc' = "single"
  /\ input' = cs
  /\ codes' = cs
  /\ i' = 1
  /\ results' = EmptyResults
  /\ attempts' = Queue(cs)
  /\ console' = <<>>
  /\ UNCHANGED <<crawl, command, lock, session, threads, last_sleep, rate_limited, request_count, tested_codes, remote,
                 invoked, posts, gets, recorded_prior>>

\* test_batch called with cs, threads > 1: up to the submission of the jobs,
\* or the early return of line 277
TestBatchThreaded(cs) ==
  /\ pc = "idle" /\ threads > 1
  /\ input' = cs
  /\ codes' = CodesToTest(cs, tested_codes)
  /\ pc' = IF Len(CodesToTest(cs, tested_codes)) = 0 THEN "idle" ELSE "threaded"
  /\ i' = 1
  /\ results' = EmptyResults
  /\ attempts' = Queue(CodesToTest(cs, tested_codes))
  /\ console' = <<>>
  /\ UNCHANGED <<crawl, command, lock, session, threads, last_sleep, rate_limited, request_count, tested_codes, remote,
                 invoked, posts, gets, recorded_prior>>

\* SingleSkip that does not move on to the next candidate
SingleSkipStays ==
  /\ pc = "single" /\ i <= Len(codes)
  /\ attempts[i].phase = "queued"
  /\ InTested(tested_codes, codes[i])
  /\ attempts' = [attempts EXCEPT ![i].phase = "skipped"]
  /\ UNCHANGED <<crawl, command, console, lock, session, threads, last_sleep, rate_limited, request_count,
                 tested_codes, pc, input, codes, i, results, remote, invoked, posts, gets,
                 recorded_prior>>

\* lines 234-235: continue
SingleSkip ==
  /\ pc = "single" /\ i <= Len(codes)
  /\ attempts[i].phase = "queued"
  /\ InTested(tested_codes, codes[i])
  /\ attempts' = [attempts EXCEPT ![i].phase = "skipped"]
  /\ i' = i + 1
  /\ UNCHANGED <<crawl, command, console, lock, session, threads, last_sleep, rate_limited, request_count, tested_codes, pc, input, codes,
                 results, remote, invoked, posts, gets, recorded_prior>>

\* line 238: test_voucher is called
SingleCall ==
  /\ pc = "single" /\ i <= Len(codes)
  /\ attempts[i].phase = "queued"
  /\ ~InTested(tested_codes, codes[i])
  /\ attempts' = [attempts EXCEPT ![i].phase = "new", ![i].session = session]
  /\ invoked' = Bump(invoked, codes[i])
  /\ UNCHANGED <<crawl, command, console, lock, session, threads, last_sleep, rate_limited, request_count, tested_codes, pc, input, codes, i,
                 results, remote, posts, gets, recorded_prior>>

SingleSubmit ==
  /\ pc = "single" /\ i <= Len(codes)
  /\ \E r \in BatchSubmitResponses(remote) : DoSubmit(i, r)

SinglePoll ==
  /\ pc = "single" /\ i <= Len(codes)
  /\ \E p \in BatchPollResponses(remote) : DoPoll(i, p)

\* SingleRecord that leaves the for loop when the attempt was rate-limited
SingleRecordStopsWhenLimited ==
  /\ pc = "single" /\ i <= Len(codes)
  /\ attempts[i].phase = "returned"
  /\ results' = UpdateResults(results, attempts[i].code, attempts[i].status)
  /\ console' = Report(console, attempts[i].code, attempts[i].status)
  /\ tested_codes' = AddTested(tested_codes, attempts[i].code)
  /\ attempts' = [attempts EXCEPT ![i].phase = "recorded"]
  /\ request_count' = CountRequest(request_count)
  /\ last_sleep' = AdaptiveDelay(CountRequest(request_count), threads)
  /\ i' = IF attempts[i].status = "RATE_LIMITED" THEN Len(codes) + 1 ELSE i + 1
  /\ UNCHANGED <<crawl, command, lock, session, threads, rate_limited, pc, input, codes, remote, invoked,
                 posts, gets, recorded_prior>>

\* lines 239-256: _update_results, then the adaptive delay of the loop
SingleRecord ==
  /\ pc = "single" /\ i <= Len(codes)
  /\ attempts[i].phase = "returned"
  /\ results' = UpdateResults(results, attempts[i].code, attempts[i].status)
  /\ console' = Report(console, attempts[i].code, attempts[i].status)
  /\ tested_codes' = AddTested(tested_codes, attempts[i].code)
  /\ attempts' = [attempts EXCEPT ![i].phase = "recorded"]
  /\ request_count' = CountRequest(request_count)
  /\ last_sleep' = AdaptiveDelay(CountRequest(request_count), threads)
  /\ i' = i + 1
  /\ UNCHANGED <<crawl, command, lock, session, threads, rate_limited, pc, input, codes, remote, invoked,
                 posts, gets, recorded_prior>>

\* line 258
SingleReturn ==
  /\ pc = "single" /\ i > Len(codes)
  /\ pc' = "idle"
  /\ recorded_prior' = recorded_prior \cup RecordedNow
  /\ UNCHANGED <<crawl, command, console, lock, session, threads, last_sleep, rate_limited, request_count, tested_codes, input, codes, i,
                 results, attempts, remote, invoked, posts, gets>>

\* the thread pool exists: as_completed is being iterated, or a
\* KeyboardInterrupt has left the with block of line 293 and the executor's
\* __exit__ (shutdown(wait=True)) is waiting for the workers, which go on
\* taking the queued jobs
PoolAlive == pc \in {"threaded", "interrupted"}

\* attempts a pool worker is busy with
Running == {k \in 1..Len(attempts) : attempts[k].phase \in {"new", "sleep"}}

\* a free worker of the pool takes the oldest queued job: test_code_wrapper
\* (lines 282-288) starts, and test_voucher is called
WorkerStart(k) ==
  /\ PoolAlive
  /\ attempts[k].phase = "queued"
  /\ \A j \in 1..(k - 1) : attempts[j].phase # "queued"
  /\ Cardinality(Running) < threads
  /\ attempts' = [attempts EXCEPT ![k].phase = "new", ![k].session = ThreadSession(k, session)]
  /\ invoked' = Bump(invoked, attempts[k].code)
  /\ UNCHANGED <<crawl, command, console, lock, session, threads, last_sleep, rate_limited, request_count, tested_codes, pc, input, codes, i,
                 results, remote, posts, gets, recorded_prior>>

\* the same, but setting up the thread's session raises (lines 284-286)
WorkerRaise(k) ==
  /\ PoolAlive
  /\ attempts[k].phase = "queued"
  /\ \A j \in 1..(k - 1) : attempts[j].phase # "queued"
  /\ Cardinality(Running) < threads
  /\ attempts' = [attempts EXCEPT ![k].phase = "raised"]
  /\ UNCHANGED <<crawl, command, console, lock, session, threads, last_sleep, rate_limited, request_count, tested_codes, pc, input, codes, i,
                 results, remote, invoked, posts, gets, recorded_prior>>

WorkerSubmit(k) == PoolAlive /\ \E r \in BatchSubmitResponses(remote) : DoSubmit(k, r)

WorkerPoll(k) == PoolAlive /\ \E p \in BatchPollResponses(remote) : DoPoll(k, p)

\* lines 301-313: as_completed yields a finished future, its result is recorded
Collect(k) ==
  /\ pc = "threaded"
  /\ attempts[k].phase = "returned"
  /\ results' = UpdateResults(results, attempts[k].code, attempts[k].status)
  /\ console' = Report(console, attempts[k].code, attempts[k].status)
  /\ tested_codes' = AddTested(tested_codes, attempts[k].code)
  /\ attempts' = [attempts EXCEPT ![k].phase = "recorded"]
  /\ UNCHANGED <<crawl, command, lock, session, threads, last_sleep, rate_limited, request_count, pc, input, codes, i, remote,
                 invoked, posts, gets, recorded_prior>>

\* lines 321-323: future.result() raises, the exception is printed
CollectRaised(k) ==
  /\ pc = "threaded"
  /\ attempts[k].phase = "raised"
  /\ attempts' = [attempts EXCEPT ![k].phase = "dropped"]
  /\ UNCHANGED <<crawl, command, console, lock, session, threads, last_sleep, rate_limited, request_count, tested_codes, pc, input, codes, i,
                 results, remote, invoked, posts, gets, recorded_prior>>

\* line 329
ThreadedReturn ==
  /\ pc = "threaded"
  /\ \A k \in 1..Len(attempts) : attempts[k].phase \in {"recorded", "dropped"}
  /\ pc' = "idle"
  /\ recorded_prior' = recorded_prior \cup RecordedNow
  /\ UNCHANGED <<crawl, command, console, lock, session, threads, last_sleep, rate_limited, request_count, tested_codes, input, codes, i,
                 results, attempts, remote, invoked, posts, gets>>

\* a KeyboardInterrupt reaches the main thread inside _test_batch_single:
\* nothing catches it before main.py:473, which prints and exits with 130
SingleInterrupt ==
  /\ pc = "single"
  /\ pc' = "exited"
  /\ UNCHANGED <<crawl, command, console, lock, session, threads, last_sleep, rate_limited, request_count, tested_codes, input,
                 codes, i, results, attempts, remote, invoked, posts, gets, recorded_prior>>

\* a KeyboardInterrupt reaches the main thread inside the with block (lines
\* 293-323): the loop over as_completed is left, the executor shuts down
\* waiting for its workers
ThreadedInterrupt ==
  /\ pc = "threaded"
  /\ pc' = "interrupted"
  /\ UNCHANGED <<crawl, command, console, lock, session, threads, last_sleep, rate_limited, request_count, tested_codes, input,
                 codes, i, results, attempts, remote, invoked, posts, gets, recorded_prior>>

\* lines 325-327: the workers have run out of jobs, the KeyboardInterrupt is
\* printed and raised again, up to main.py:473
InterruptedExit ==
  /\ pc = "interrupted"
  /\ \A k \in 1..Len(attempts) : attempts[k].phase \notin {"queued", "new", "sleep"}
  /\ pc' = "exited"
  /\ UNCHANGED <<crawl, command, console, lock, session, threads, last_sleep, rate_limited, request_count, tested_codes, input,
                 codes, i, results, attempts, remote, invoked, posts, gets, recorded_prior>>

Next ==
  \/ \E cs \in CodeLists : TestBatchSingle(cs)
  \/ \E cs \in CodeLists : TestBatchThreaded(cs)
  \/ SingleSkip
  \/ SingleCall
  \/ SingleSubmit
  \/ SinglePoll
  \/ SingleRecord
  \/ SingleReturn
  \/ \E k \in 1..Len(attempts) : WorkerStart(k)
  \/ \E k \in 1..Len(attempts) : WorkerRaise(k)
  \/ \E k \in 1..Len(attempts) : WorkerSubmit(k)
  \/ \E k \in 1..Len(attempts) : WorkerPoll(k)
  \/ \E k \in 1..Len(attempts) : Collect(k)
  \/ \E k \in 1..Len(attempts) : CollectRaised(k)
  \/ ThreadedReturn

Spec == Init /\ [][Next]_vars

\* an answer the remote of the given behaviour can give to a poll GET
AnAnswer(profile) ==
  CHOOSE p \in BatchPollResponses(profile) : p.doc.message = JAbsent

\* the steps test_batch takes by itself once it has been called: the main
\* thread and the pool's workers run, every network call returns or raises.
\* The return of a poll GET is stated for one of its answers: a poll GET can
\* return this answer exactly when it can return, and between two poll GETs
\* lies a submit POST, so that fairness to these steps is fairness to the
\* steps with any answer.
Progress ==
  \/ SingleSkip
  \/ SingleCall
  \/ SingleSubmit
  \/ pc = "single" /\ i <= Len(codes) /\ DoPoll(i, AnAnswer(remote))
  \/ SingleRecord
  \/ SingleReturn
  \/ \E k \in 1..Len(attempts) : WorkerStart(k)
  \/ \E k \in 1..Len(attempts) : WorkerSubmit(k)
  \/ \E k \in 1..Len(attempts) : PoolAlive /\ DoPoll(k, AnAnswer(remote))
  \/ \E k \in 1..Len(attempts) : Collect(k)
  \/ \E k \in 1..Len(attempts) : CollectRaised(k)
  \/ ThreadedReturn

\* the engine run to completion against the remote that throttles some
\* submits and answers the others: a call of test_batch, once made, is not
\* left standing
InitFair == Init /\ remote = "vouchers"

SpecFair == InitFair /\ [][Next]_vars /\ WF_vars(Progress)

\* the engine run to completion against the remote whose submits time out,
\* are throttled, fail, or come without a handle: every network call returns
\* or raises
InitFailing == Init /\ remote = "failing"

SpecFailing == InitFailing /\ [][Next]_vars /\ WF_vars(Progress)

\* the same engine with a user who may press Ctrl-C during a batch
NextInt ==
  \/ Next
  \/ SingleInterrupt
  \/ ThreadedInterrupt
  \/ InterruptedExit

SpecInt == Init /\ [][NextInt]_vars

(***************************************************************************)
(* The thread pool of _test_batch_threaded with its threads told apart     *)
(* (lines 293-298): batches with more jobs than workers, every submit      *)
(* throttled or answered with a handle, every poll answered.               *)
(***************************************************************************)
MaxJobs == MaxCodes + 1

JobLists == UNION {[1..n -> Codes] : n \in 0..MaxJobs}

PoolThreads == {ToString(w) : w \in 1..threads}

\* the attempts the pool thread w is running
RunningOn(w) == {k \in Running : attempts[k].worker = w}

\* PoolStart that hands a job to a thread whatever the thread is doing
PoolStartBusy(k, w) ==
  /\ PoolAlive
  /\ attempts[k].phase = "queued"
  /\ \A j \in 1..(k - 1) : attempts[j].phase # "queued"
  /\ w \in PoolThreads
  /\ attempts' = [attempts EXCEPT ![k].phase = "new", ![k].worker = w,
                                  ![k].session = ThreadSession(k, session)]
  /\ invoked' = Bump(invoked, attempts[k].code)
  /\ UNCHANGED <<crawl, command, console, lock, session, threads, last_sleep, rate_limited, request_count,
                 tested_codes, pc, input, codes, i, results, remote, posts, gets,
                 recorded_prior>>

\* the pool thread w, having no job, takes the oldest queued job and runs
\* test_code_wrapper on it (lines 282-288)
PoolStart(k, w) ==
  /\ PoolAlive
  /\ attempts[k].phase = "queued"
  /\ \A j \in 1..(k - 1) : attempts[j].phase # "queued"
  /\ w \in PoolThreads
  /\ RunningOn(w) = {}
  /\ attempts' = [attempts EXCEPT ![k].phase = "new", ![k].worker = w,
                                  ![k].session = ThreadSession(k, session)]
  /\ invoked' = Bump(invoked, attempts[k].code)
  /\ UNCHANGED <<crawl, command, console, lock, session, threads, last_sleep, rate_limited, request_count,
                 tested_codes, pc, input, codes, i, results, remote, posts, gets,
                 recorded_prior>>

\* the poll GET of attempt k returns an answer
WorkerPollAnswered(k) == PoolAlive /\ DoPoll(k, AnAnswer(remote))

InitPool == Init /\ threads > 1 /\ remote = "vouchers"

NextPool ==
  \/ \E cs \in JobLists : TestBatchThreaded(cs)
  \/ \E k \in 1..Len(attempts) : \E w \in PoolThreads : PoolStart(k, w)
  \/ \E k \in 1..Len(attempts) : WorkerSubmit(k)
  \/ \E k \in 1..Len(attempts) : WorkerPollAnswered(k)
  \/ \E k \in 1..Len(attempts) : Collect(k)
  \/ ThreadedReturn

SpecPool == InitPool /\ [][NextPool]_vars

(***************************************************************************)
(* main.py's test command (cmd_test, lines 69-172) from its call of        *)
(* validate_and_exit_if_invalid on, run for a non-empty candidate list.    *)
(***************************************************************************)
\* tester.py:17: the parameters of VoucherTester.__init__ besides self
InitParameters == {"base_url", "verbose", "threads"}

\* main.py:130: the keywords of the constructor call of cmd_test
CmdTestKeywords == {"base_url", "verbose", "threads", "no_brakes"}

\* a Python call with a keyword the function does not have raises TypeError
CallRaises(keywords, parameters) == keywords \ parameters # {}

\* SessionValid that accepts the control answer 'expired' only
SessionValidOnlyExpired(status) == status = "EXPIRED"

\* session.py:102-118: the success flag validate_session returns for the
\* status of the control attempt
SessionValid(status) ==
  IF status = "EXPIRED" THEN TRUE
  ELSE IF status \in {"ERROR", "EXCEPTION"} THEN FALSE
  ELSE TRUE

\* session.py:99-118 and 148-153: the control attempt has returned,
\* validate_session returns its verdict, validate_and_exit_if_invalid exits
\* with status 1 or returns the session to cmd_test
ValidateSession ==
  /\ pc = "validate" /\ command.at = ""
  /\ attempts[1].phase = "returned"
  /\ command' = IF SessionValid(attempts[1].status)
                THEN [at |-> "validated", exit |-> -1]
                ELSE [at |-> "exited", exit |-> 1]
  /\ UNCHANGED <<threads, rate_limited, request_count, tested_codes, pc, input, codes, i,
                 results, attempts, remote, invoked, posts, gets, recorded_prior,
                 last_sleep, console, lock, session, crawl>>

\* main.py:130: the VoucherTester is constructed.  An exception of the call
\* is caught nowhere (main.py:470-475 catches KeyboardInterrupt only): the
\* interpreter prints the traceback and the process exits with status 1
ConstructTester ==
  /\ command.at = "validated"
  /\ command' = IF CallRaises(CmdTestKeywords, InitParameters)
                THEN [at |-> "raised", exit |-> 1]
                ELSE [at |-> "constructed", exit |-> -1]
  /\ UNCHANGED <<threads, rate_limited, request_count, tested_codes, pc, input, codes, i,
                 results, attempts, remote, invoked, posts, gets, recorded_prior,
                 last_sleep, console, lock, session, crawl>>

NextCmd ==
  \/ TVSubmit
  \/ TVPoll
  \/ ValidateSession
  \/ ConstructTester

SpecCmd == InitTV /\ [][NextCmd]_vars

(***************************************************************************)
(* The engine lock: the concurrent mode with the statements of the two     *)
(* "with self.lock" blocks (lines 29-31 and 186-211) taken one at a time.  *)
(* A thread is named after the job it runs; the main thread is "main".     *)
(***************************************************************************)
\* DelayAcquire that does not wait for the lock
DelayAcquireNoLock(k) ==
  /\ PoolAlive
  /\ attempts[k].phase = "sleep" /\ attempts[k].at = ""
  /\ lock' = ToString(k)
  /\ attempts' = [attempts EXCEPT ![k].at = "locked"]
  /\ UNCHANGED <<crawl, command, console, session, threads, last_sleep, rate_limited, request_count,
                 tested_codes, pc, input, codes, i, results, remote, invoked, posts, gets,
                 recorded_prior>>

\* line 29: the worker of job k enters adaptive_delay and takes the lock
DelayAcquire(k) ==
  /\ PoolAlive
  /\ attempts[k].phase = "sleep" /\ attempts[k].at = ""
  /\ lock = "free"
  /\ lock' = ToString(k)
  /\ attempts' = [attempts EXCEPT ![k].at = "locked"]
  /\ UNCHANGED <<crawl, command, console, session, threads, last_sleep, rate_limited, request_count,
                 tested_codes, pc, input, codes, i, results, remote, invoked, posts, gets,
                 recorded_prior>>

\* line 30, first half: self.request_count is loaded
DelayLoad(k) ==
  /\ attempts[k].phase = "sleep" /\ attempts[k].at = "locked"
  /\ attempts' = [attempts EXCEPT ![k].at = "loaded", ![k].reg = request_count]
  /\ UNCHANGED <<crawl, command, console, lock, session, threads, last_sleep, rate_limited, request_count,
                 tested_codes, pc, input, codes, i, results, remote, invoked, posts, gets,
                 recorded_prior>>

\* line 30, second half: the sum is stored in self.request_count
DelayStore(k) ==
  /\ attempts[k].phase = "sleep" /\ attempts[k].at = "loaded"
  /\ request_count' = CountRequest(attempts[k].reg)
  /\ attempts' = [attempts EXCEPT ![k].at = "stored"]
  /\ UNCHANGED <<crawl, command, console, lock, session, threads, last_sleep, rate_limited, tested_codes,
                 pc, input, codes, i, results, remote, invoked, posts, gets, recorded_prior>>

\* line 31: count = self.request_count
DelayRead(k) ==
  /\ attempts[k].phase = "sleep" /\ attempts[k].at = "stored"
  /\ attempts' = [attempts EXCEPT ![k].at = "counted", ![k].count = request_count]
  /\ UNCHANGED <<crawl, command, console, lock, session, threads, last_sleep, rate_limited, request_count,
                 tested_codes, pc, input, codes, i, results, remote, invoked, posts, gets,
                 recorded_prior>>

\* the with block of line 29 is left, the delay is computed from count (lines
\* 33-48) and slept (line 124)
DelayRelease(k) ==
  /\ attempts[k].phase = "sleep" /\ attempts[k].at = "counted"
  /\ lock' = "free"
  /\ last_sleep' = AdaptiveDelay(attempts[k].count, threads)
  /\ attempts' = [attempts EXCEPT ![k].at = "released"]
  /\ UNCHANGED <<crawl, command, console, session, threads, rate_limited, request_count, tested_codes, pc,
                 input, codes, i, results, remote, invoked, posts, gets, recorded_prior>>

\* lines 127-173: the poll GET after the sleep, answered
PollAfterDelay(k) ==
  /\ PoolAlive
  /\ attempts[k].phase = "sleep" /\ attempts[k].at = "released"
  /\ attempts' = [attempts EXCEPT ![k] = PollStep(@, AnAnswer(remote))]
  /\ gets' = Bump(gets, attempts[k].code)
  /\ UNCHANGED <<crawl, command, console, lock, session, threads, last_sleep, rate_limited, request_count,
                 tested_codes, pc, input, codes, i, results, remote, invoked, posts,
                 recorded_prior>>

\* RecordAcquire that enters the block without the lock
RecordAcquireNoLock(k) ==
  /\ pc = "threaded"
  /\ attempts[k].phase = "returned"
  /\ \A j \in 1..Len(attempts) : attempts[j].phase # "recording"
  /\ attempts' = [attempts EXCEPT ![k].phase = "recording", ![k].at = "entered"]
  /\ UNCHANGED <<crawl, command, console, lock, session, threads, last_sleep, rate_limited, request_count,
                 tested_codes, pc, input, codes, i, results, remote, invoked, posts, gets,
                 recorded_prior>>

\* lines 301-307 and 186: as_completed yields the finished future of job k,
\* the main thread calls _update_results and takes the lock
RecordAcquire(k) ==
  /\ pc = "threaded"
  /\ attempts[k].phase = "returned"
  /\ \A j \in 1..Len(attempts) : attempts[j].phase # "recording"
  /\ lock = "free"
  /\ lock' = "main"
  /\ attempts' = [attempts EXCEPT ![k].phase = "recording", ![k].at = "entered"]
  /\ UNCHANGED <<crawl, command, console, session, threads, last_sleep, rate_limited, request_count,
                 tested_codes, pc, input, codes, i, results, remote, invoked, posts, gets,
                 recorded_prior>>

\* line 187
RecordCount(k) ==
  /\ attempts[k].phase = "recording" /\ attempts[k].at = "entered"
  /\ results' = [results EXCEPT !.tested = @ + 1]
  /\ attempts' = [attempts EXCEPT ![k].at = "tallied"]
  /\ UNCHANGED <<crawl, command, console, lock, session, threads, last_sleep, rate_limited, request_count,
                 tested_codes, pc, input, codes, i, remote, invoked, posts, gets,
                 recorded_prior>>

\* line 188
RecordAdd(k) ==
  /\ attempts[k].phase = "recording" /\ attempts[k].at = "tallied"
  /\ tested_codes' = AddTested(tested_codes, attempts[k].code)
  /\ attempts' = [attempts EXCEPT ![k].at = "added"]
  /\ UNCHANGED <<crawl, command, console, lock, session, threads, last_sleep, rate_limited, request_count,
                 pc, input, codes, i, results, remote, invoked, posts, gets, recorded_prior>>

\* lines 190-211
RecordAppend(k) ==
  /\ attempts[k].phase = "recording" /\ attempts[k].at = "added"
  /\ console' = Report(console, attempts[k].code, attempts[k].status)
  /\ results' = AppendTo(results, attempts[k].status, attempts[k].code)
  /\ attempts' = [attempts EXCEPT ![k].at = "appended"]
  /\ UNCHANGED <<crawl, command, lock, session, threads, last_sleep, rate_limited, request_count,
                 tested_codes, pc, input, codes, i, remote, invoked, posts, gets,
                 recorded_prior>>

\* the with block of line 186 is left
RecordRelease(k) ==
  /\ attempts[k].phase = "recording" /\ attempts[k].at = "appended"
  /\ lock' = "free"
  /\ attempts' = [attempts EXCEPT ![k].phase = "recorded", ![k].at = ""]
  /\ UNCHANGED <<crawl, command, console, session, threads, last_sleep, rate_limited, request_count,
                 tested_codes, pc, input, codes, i, results, remote, invoked, posts, gets,
                 recorded_prior>>

InitLock == Init /\ threads > 1 /\ remote = "vouchers"

NextLock ==
  \/ \E cs \in CodeLists : TestBatchThreaded(cs)
  \/ \E k \in 1..Len(attempts) : WorkerStart(k)
  \/ \E k \in 1..Len(attempts) : WorkerSubmit(k)
  \/ \E k \in 1..Len(attempts) : DelayAcquire(k)
  \/ \E k \in 1..Len(attempts) : DelayLoad(k)
  \/ \E k \in 1..Len(attempts) : DelayStore(k)
  \/ \E k \in 1..Len(attempts) : DelayRead(k)
  \/ \E k \in 1..Len(attempts) : DelayRelease(k)
  \/ \E k \in 1..Len(attempts) : PollAfterDelay(k)
  \/ \E k \in 1..Len(attempts) : RecordAcquire(k)
  \/ \E k \in 1..Len(attempts) : RecordCount(k)
  \/ \E k \in 1..Len(attempts) : RecordAdd(k)
  \/ \E k \in 1..Len(attempts) : RecordAppend(k)
  \/ \E k \in 1..Len(attempts) : RecordRelease(k)
  \/ ThreadedReturn

SpecLock == InitLock /\ [][NextLock]_vars

(***************************************************************************)
(* adaptive_delay (lines 27-48) called again and again on a fresh engine   *)
(* built with any number of workers.                                       *)
(***************************************************************************)
InitDelay ==
  /\ threads \in 1..MaxThreads
  /\ rate_limited = FALSE
  /\ request_count = 0
  /\ tested_codes = {}
  /\ pc = "idle"
  /\ input = <<>>
  /\ codes = <<>>
  /\ i = 1
  /\ results = EmptyResults
  /\ attempts = <<>>
  /\ remote = "any"
  /\ invoked = [c \in AllCodes |-> 0]
  /\ posts = [c \in AllCodes |-> 0]
  /\ gets = [c \in AllCodes |-> 0]
  /\ recorded_prior = {}
  /\ last_sleep = NoSleep
  /\ console = <<>>
  /\ lock = "free"
  /\ session = CallerSession
  /\ command = NoCommand
  /\ crawl = NoCrawl

\* one call of adaptive_delay: the counter is incremented and read (lines
\* 29-31), the delay is computed from the value read (lines 33-48)
AdaptiveDelayCall ==
  /\ request_count < MaxRequests
  /\ request_count' = CountRequest(request_count)
  /\ last_sleep' = AdaptiveDelay(CountRequest(request_count), threads)
  /\ UNCHANGED <<crawl, command, console, lock, session, threads, rate_limited, tested_codes, pc, input,
                 codes, i, results, attempts, remote, invoked, posts, gets, recorded_prior>>

NextDelay == AdaptiveDelayCall

SpecDelay == InitDelay /\ [][NextDelay]_vars

(***************************************************************************)
(* EventScraper.crawl_event (scraper.py, lines 232-285) and the recursion  *)
(* of its inner function crawl_page.  The extraction of speakers, talks    *)
(* and sponsors from a fetched page (lines 258-261) changes none of the    *)
(* variables that steer the crawl and is left out.                         *)
(***************************************************************************)
MaxDepth == 3

\* line 266: subpages[:5]
SubpageLimit == 5

\* line 211
Keywords == {"schedule", "speakers", "program", "agenda", "talks", "sessions"}

\* the inner loop of find_subpages (lines 218-220): some keyword occurs in
\* the lower-cased link
HasKeyword(link) ==
  LET link_lower == Lower(link)
  IN  \E keyword \in Keywords : Contains(keyword, link_lower)

\* position of the last "/" of s (s holds one)
LastSlash(s) ==
  CHOOSE k \in 1..Len(s) :
    /\ SubSeq(s, k, k) = "/"
    /\ \A j \in (k + 1)..Len(s) : SubSeq(s, j, j) # "/"

\* scheme and host of an absolute URL
Origin(url) ==
  LET rest == AfterFirst(url, "://")
  IN  SubSeq(url, 1, Find("://", url) + 2) \o SplitHead(rest, "/")

\* urllib.parse.urljoin(base, link) for the three shapes of link the sites
\* below use: an absolute URL, an absolute path, a path relative to the
\* directory of base (no dot segments, no query, no fragment)
UrlJoin(base, link) ==
  IF Contains("://", link) THEN link
  ELSE IF SubSeq(link, 1, 1) = "/" THEN Origin(base) \o link
  ELSE SubSeq(base, 1, LastSlash(base)) \o link

\* find_subpages (lines 208-230) on the hrefs of a page, in document order
RECURSIVE FindSubpagesFrom(_, _, _, _)
FindSubpagesFrom(base_url, links, k, subpages) ==
  IF k > Len(links) THEN subpages
  ELSE LET full_url == UrlJoin(base_url, links[k])
       IN  FindSubpagesFrom(base_url, links, k + 1,
             IF HasKeyword(links[k])
                /\ \A j \in 1..Len(subpages) : subpages[j] # full_url
             THEN Append(subpages, full_url)
             ELSE subpages)

find_subpages(base_url, links) == FindSubpagesFrom(base_url, links, 1, <<>>)

\* the event sites crawled: "ring" has a cycle and a page that links to
\* itself, "self" is one page linking to itself, "fan" has a page with more
\* than five related links, "mesh" links every page to every page, "chain"
\* is deeper than any max_depth tried
Sites == {"ring", "self", "fan", "mesh", "chain"}

\* the base_url argument of crawl_event for each site
BaseUrl(site) ==
  CASE site = "ring" -> "http://e/schedule"
    [] site = "self" -> "http://e/talks"
    [] OTHER -> "http://e/"

FanLinks ==
  <<"/about", "/schedule", "/Speakers", "/schedule", "/program", "agenda",
    "http://e/talks", "/sessions", "/talks/2">>

MeshLinks == <<"/schedule", "/speakers", "/program", "/">>

\* the href attributes of the page the site serves at url, in document
\* order; <<>> for a page without links
Links(site, url) ==
  CASE site = "ring" /\ url = "http://e/schedule" ->
         <<"speakers", "/schedule", "http://e/">>
    [] site = "ring" /\ url = "http://e/speakers" ->
         <<"/schedule", "/Schedule", "speakers">>
    [] site = "self" /\ url = "http://e/talks" -> <<"talks">>
    [] site = "fan" /\ url = "http://e/" -> FanLinks
    [] site = "fan" /\ url # "http://e/" -> <<"/talks/2", "/schedule", "/">>
    [] site = "mesh" -> MeshLinks
    [] site = "chain" /\ url = "http://e/" -> <<"/schedule">>
    [] site = "chain" /\ url = "http://e/schedule" -> <<"/speakers">>
    [] site = "chain" /\ url = "http://e/speakers" -> <<"/program">>
    [] site = "chain" /\ url = "http://e/program" -> <<"/agenda">>
    [] site = "chain" /\ url = "http://e/agenda" -> <<"/talks">>
    [] site = "chain" /\ url = "http://e/talks" -> <<"/sessions">>
    [] OTHER -> <<>>

\* the URLs the site answers with a page; any other URL is a 404, which
\* fetch_page turns into None (lines 23-33)
Served(site, url) ==
  CASE site = "ring" -> url \in {"http://e/schedule", "http://e/speakers"}
    [] site = "self" -> url = "http://e/talks"
    [] OTHER -> TRUE

\* one call of crawl_page (line 248): its arguments, the statement it has
\* reached, the slice its for loop runs over and the index of the loop
Frame(url, depth, from) ==
  [url |-> url, depth |-> depth, from |-> from, at |-> "called",
   subpages |-> <<>>, idx |-> 1]

Top(c) == c.stack[Len(c.stack)]

\* the return of the innermost crawl_page call
Pop(c) == [c EXCEPT !.stack = SubSeq(@, 1, Len(@) - 1)]

\* line 249 without the visited set
RefusedByDepthOnly(c, url, depth) == depth > c.max_depth

\* line 249: depth > max_depth or url in visited
Refused(c, url, depth) == depth > c.max_depth \/ url \in c.visited

\* line 266 without the slice
SliceAll(subpages) == subpages

\* line 266: subpages[:5]
Slice(subpages) ==
  SubSeq(subpages, 1,
         IF Len(subpages) < SubpageLimit THEN Len(subpages) ELSE SubpageLimit)

\* the for loop of line 266 staying on the same element
AdvanceStays(frame) == frame

\* the for loop of line 266 moving to its next element
Advance(frame) == [frame EXCEPT !.idx = @ + 1]

InitCrawl ==
  /\ InitDelay
  /\ threads = 1

\* crawl_event is called (lines 232-246) and calls crawl_page(base_url, 1)
\* (line 270)
CrawlEvent ==
  /\ crawl.at = "idle"
  /\ \E site \in Sites, max_depth \in 0..MaxDepth :
       crawl' = [NoCrawl EXCEPT !.at = "crawling", !.site = site,
                                !.max_depth = max_depth,
                                !.stack = <<Frame(BaseUrl(site), 1, "")>>]
  /\ UNCHANGED <<command, console, lock, session, threads, last_sleep, rate_limited,
                 request_count, tested_codes, pc, input, codes, i, results, attempts,
                 remote, invoked, posts, gets, recorded_prior>>

\* lines 249-250: the call returns at once
CrawlPageRefuse ==
  /\ crawl.at = "crawling" /\ crawl.stack # <<>>
  /\ LET top == Top(crawl)
     IN  /\ top.at = "called"
         /\ Refused(crawl, top.url, top.depth)
         /\ crawl' = Pop([crawl EXCEPT !.revisits =
                            IF top.url \in crawl.visited
                            THEN @ \cup {[url |-> top.url, from |-> top.from]}
                            ELSE @])
  /\ UNCHANGED <<command, console, lock, session, threads, last_sleep, rate_limited,
                 request_count, tested_codes, pc, input, codes, i, results, attempts,
                 remote, invoked, posts, gets, recorded_prior>>

\* line 252: visited.add(url), before the page is fetched
CrawlPageVisit ==
  /\ crawl.at = "crawling" /\ crawl.stack # <<>>
  /\ LET top == Top(crawl)
     IN  /\ top.at = "called"
         /\ ~Refused(crawl, top.url, top.depth)
         /\ crawl' = [crawl EXCEPT !.visited = @ \cup {top.url},
                                   !.stack[Len(crawl.stack)].at = "fetching"]
  /\ UNCHANGED <<command, console, lock, session, threads, last_sleep, rate_limited,
                 request_count, tested_codes, pc, input, codes, i, results, attempts,
                 remote, invoked, posts, gets, recorded_prior>>

\* lines 253-256: fetch_page returns None (the request failed, timed out or
\* was answered with an error status) or an empty body, the call returns
FetchFails ==
  /\ crawl.at = "crawling" /\ crawl.stack # <<>>
  /\ LET top == Top(crawl)
     IN  /\ top.at = "fetching"
         /\ crawl' = Pop([crawl EXCEPT !.fetched =
                            Append(@, [url |-> top.url, depth |-> top.depth,
                                       ok |-> FALSE])])
  /\ UNCHANGED <<command, console, lock, session, threads, last_sleep, rate_limited,
                 request_count, tested_codes, pc, input, codes, i, results, attempts,
                 remote, invoked, posts, gets, recorded_prior>>

\* lines 253-266: fetch_page returns the page; below max_depth its subpages
\* are found and the loop over the first five starts, at max_depth the call
\* returns
FetchReturns ==
  /\ crawl.at = "crawling" /\ crawl.stack # <<>>
  /\ LET top == Top(crawl)
         got == [crawl EXCEPT !.fetched =
                   Append(@, [url |-> top.url, depth |-> top.depth,
                              ok |-> TRUE])]
     IN  /\ top.at = "fetching"
         /\ Served(crawl.site, top.url)
         /\ crawl' =
              IF top.depth < crawl.max_depth
              THEN [got EXCEPT !.stack[Len(crawl.stack)] =
                      [top EXCEPT !.at = "looping",
                                  !.subpages =
                                    Slice(find_subpages(top.url,
                                            Links(crawl.site, top.url)))]]
              ELSE Pop(got)
  /\ UNCHANGED <<command, console, lock, session, threads, last_sleep, rate_limited,
                 request_count, tested_codes, pc, input, codes, i, results, attempts,
                 remote, invoked, posts, gets, recorded_prior>>

\* lines 266-267: the loop calls crawl_page(subpage, depth + 1)
CrawlFollow ==
  /\ crawl.at = "crawling" /\ crawl.stack # <<>>
  /\ LET top == Top(crawl)
     IN  /\ top.at = "looping"
         /\ top.idx <= Len(top.subpages)
         /\ crawl' = [crawl EXCEPT !.stack =
                        Append([@ EXCEPT ![Len(@)] = Advance(top)],
                               Frame(top.subpages[top.idx], top.depth + 1,
                                     top.url))]
  /\ UNCHANGED <<command, console, lock, session, threads, last_sleep, rate_limited,
                 request_count, tested_codes, pc, input, codes, i, results, attempts,
                 remote, invoked, posts, gets, recorded_prior>>

\* line 266: the loop is exhausted, the call returns
CrawlPageReturn ==
  /\ crawl.at = "crawling" /\ crawl.stack # <<>>
  /\ LET top == Top(crawl)
     IN  /\ top.at = "looping"
         /\ top.idx > Len(top.subpages)
         /\ crawl' = Pop(crawl)
  /\ UNCHANGED <<command, console, lock, session, threads, last_sleep, rate_limited,
                 request_count, tested_codes, pc, input, codes, i, results, attempts,
                 remote, invoked, posts, gets, recorded_prior>>

\* lines 272-284: the outermost crawl_page call has returned, crawl_event
\* returns its results
CrawlEventReturn ==
  /\ crawl.at = "crawling" /\ crawl.stack = <<>>
  /\ crawl' = [crawl EXCEPT !.at = "returned"]
  /\ UNCHANGED <<command, console, lock, session, threads, last_sleep, rate_limited,
                 request_count, tested_codes, pc, input, codes, i, results, attempts,
                 remote, invoked, posts, gets, recorded_prior>>

NextCrawl ==
  \/ CrawlEvent
  \/ CrawlPageRefuse
  \/ CrawlPageVisit
  \/ FetchFails
  \/ FetchReturns
  \/ CrawlFollow
  \/ CrawlPageReturn
  \/ CrawlEventReturn

\* every fetch returns (fetch_page has a 10 second timeout, line 27) and
\* the interpreter keeps running the one thread of the crawl
SpecCrawl == InitCrawl /\ [][NextCrawl]_vars /\ WF_vars(NextCrawl)

(***************************************************************************)
(* Properties.                                                             *)
(***************************************************************************)
\* test_batch has reached its return statement (line 258 or line 329)
AtReturn ==
  \/ pc = "single" /\ i > Len(codes)
  \/ pc = "threaded"
     /\ \A k \in 1..Len(attempts) : attempts[k].phase \in {"recorded", "dropped"}

Occurs(seq, c) == Cardinality({j \in 1..Len(seq) : seq[j] = c})

Distinct(seq) == \A j, k \in 1..Len(seq) : seq[j] = seq[k] => j = k

\* indices of the attempts for which _update_results ran during the call
Recorded == {k \in 1..Len(attempts) : attempts[k].phase = "recorded"}

SumOfLists(res) ==
  Len(res.SUCCESS) + Len(res.EXPIRED) + Len(res.USED) + Len(res.LIMITED)
  + Len(res.UNKNOWN) + Len(res.NOTFOUND)

\* the poll answered 200 with a JSON object whose success flag is not set
PollUnsuccessful(p) ==
  p.exc = "" /\ p.status = 200 /\ p.doc.kind = "object" /\ ~Truthy(p.doc.success)

\* C1: test_voucher is invoked at most once per distinct candidate string,
\* and results['tested'] never exceeds the number of distinct candidates of
\* the input list, in either mode and with duplicates in the input.
C1_AtMostOncePerCandidate ==
  /\ \A c \in Codes : invoked[c] <= 1
  /\ results.tested <= Cardinality({input[j] : j \in 1..Len(input)})

\* C2: during a test_batch call, no attempt is made (no submit is issued) for
\* a candidate that an earlier, returned call recorded, and results['tested']
\* counts at most the entries of the input that no earlier call recorded.
C2_DedupOutlivesBatch ==
  pc \in {"single", "threaded"} =>
    /\ \A k \in 1..Len(attempts) :
         (attempts[k].sub # NoSubmit
          \/ attempts[k].phase \in {"new", "sleep", "returned", "recorded"})
         => attempts[k].code \notin recorded_prior
    /\ results.tested
         <= Cardinality({j \in 1..Len(input) : input[j] \notin recorded_prior})

\* a later call is in progress, was handed a candidate an earlier call
\* recorded, and has recorded another candidate
C2_Witness ==
  /\ pc = "threaded"
  /\ \E j \in 1..Len(input) : input[j] \in recorded_prior
  /\ results.tested > 0

\* C3: when test_batch returns, results['tested'] equals the number of
\* distinct candidates recorded through _update_results during the call.
C3_TestedEqualsDistinctRecorded ==
  AtReturn => results.tested = Cardinality(RecordedNow)

\* C4: for a batch of distinct, previously untested candidates whose attempts
\* all return one of the six listed statuses, at return each candidate is
\* once in the list of its status and in no other list, and results['tested']
\* is the number of candidates.
C4_Precondition ==
  /\ Distinct(input)
  /\ \A j \in 1..Len(input) : input[j] \notin recorded_prior
  /\ Len(attempts) = Len(input)
  /\ \A k \in 1..Len(attempts) :
       attempts[k].status \in {"SUCCESS", "EXPIRED", "USED", "LIMITED", "UNKNOWN", "NOTFOUND"}

C4_Aggregation ==
  (AtReturn /\ C4_Precondition) =>
    /\ results.tested = Len(input)
    /\ \A k \in 1..Len(attempts) :
         \A t \in {"SUCCESS", "EXPIRED", "USED", "LIMITED", "UNKNOWN", "NOTFOUND"} :
           Occurs(results[t], attempts[k].code) = IF t = attempts[k].status THEN 1 ELSE 0

\* a concurrent batch of two such candidates, one USED, is about to return
C4_Witness ==
  /\ AtReturn /\ C4_Precondition
  /\ threads > 1 /\ Len(input) = MaxCodes
  /\ \E k \in 1..Len(attempts) : attempts[k].status = "USED"

C6_Total ==
  pc = "validate" =>
    /\ attempts[1].phase \in {"new", "sleep", "returned"}
    /\ attempts[1].phase # "returned" => (attempts[1].status = "" /\ ENABLED NextTV)
    /\ attempts[1].phase = "returned" =>
         /\ attempts[1].status \in
              {"SUCCESS", "EXPIRED", "NOTFOUND", "INVALID", "USED", "LIMITED", "UNKNOWN",
               "NO_RESPONSE", "ERROR", "EXCEPTION", "RATE_LIMITED"}
         /\ ~ENABLED NextTV

\* test_voucher returned after a poll answer that is no JSON object
C6_Witness ==
  /\ pc = "validate"
  /\ attempts[1].phase = "returned"
  /\ attempts[1].poll.exc = "" /\ attempts[1].poll.status = 200
  /\ attempts[1].poll.doc.kind = "array"

\* C7: a status-200 poll result is classified by the ordered rule list on the
\* lower-cased message, first match wins.
C7_Has(word, message) == Contains(word, Lower(message))

C7_Rule(success, message) ==
  IF success THEN "SUCCESS"
  ELSE IF C7_Has("expired", message) THEN "EXPIRED"
  ELSE IF C7_Has("not known in our database", message) THEN "NOTFOUND"
  ELSE IF C7_Has("invalid", message) \/ C7_Has("not found", message) THEN "INVALID"
  ELSE IF C7_Has("already", message) \/ C7_Has("used", message)
          \/ C7_Has("redeemed", message)
  THEN "USED"
  ELSE IF C7_Has("limit", message) \/ C7_Has("maximum", message) THEN "LIMITED"
  ELSE "UNKNOWN"

C7_OrderedRules ==
  \A k \in 1..Len(attempts) :
    ( /\ attempts[k].phase = "returned"
      /\ attempts[k].poll.exc = "" /\ attempts[k].poll.status = 200
      /\ attempts[k].poll.doc.kind = "object"
      /\ attempts[k].poll.doc.message.t = "str" )
    => attempts[k].status
         = C7_Rule(Truthy(attempts[k].poll.doc.success), attempts[k].poll.doc.message.s)

\* an upper-case EXPIRED together with limit, no success flag: EXPIRED
C7_Witness ==
  /\ attempts[1].phase = "returned"
  /\ attempts[1].poll.status = 200
  /\ ~Truthy(attempts[1].poll.doc.success)
  /\ attempts[1].poll.doc.message = JStr("EXPIRED limit")
  /\ attempts[1].status = "EXPIRED"

\* C8: a recorded candidate whose poll message contains 'invalid' or 'not
\* found' (no success flag, no earlier rule matching) is listed in
\* results['UNKNOWN'] when the batch returns.
C8_InvalidListedAsUnknown ==
  AtReturn =>
    \A k \in Recorded :
      ( /\ PollUnsuccessful(attempts[k].poll)
        /\ attempts[k].poll.doc.message.t = "str"
        /\ ~C7_Has("expired", attempts[k].poll.doc.message.s)
        /\ ~C7_Has("not known in our database", attempts[k].poll.doc.message.s)
        /\ (C7_Has("invalid", attempts[k].poll.doc.message.s)
            \/ C7_Has("not found", attempts[k].poll.doc.message.s)) )
      => Occurs(results.UNKNOWN, attempts[k].code) >= 1

\* C9: a status-200 poll result with no success flag and an empty or absent
\* message is classified UNKNOWN, and once recorded the candidate is listed
\* in results['UNKNOWN'].
C9_EmptyOrAbsent(p) ==
  /\ PollUnsuccessful(p)
  /\ (p.doc.message.t = "absent" \/ p.doc.message = JStr(""))

C9_EmptyMessageUnknown ==
  \A k \in 1..Len(attempts) :
    (attempts[k].phase \in {"returned", "recorded"} /\ C9_EmptyOrAbsent(attempts[k].poll))
    => /\ attempts[k].status = "UNKNOWN"
       /\ attempts[k].phase = "recorded" => Occurs(results.UNKNOWN, attempts[k].code) >= 1

\* a batch returns that recorded a candidate whose poll carried no message
C9_Witness ==
  /\ AtReturn
  /\ \E k \in Recorded :
       PollUnsuccessful(attempts[k].poll) /\ attempts[k].poll.doc.message.t = "absent"

\* C10: a submit response with status 429, or an X-RateLimit-Remaining below
\* 5, or status 403 with the challenge marker in its body, makes test_voucher
\* return RATE_LIMITED at once, with no poll GET.
C10_Throttled(r) ==
  /\ r.exc = ""
  /\ \/ r.status = 429
     \/ r.rl.t = "str" /\ PyInt(r.rl.s).ok /\ PyInt(r.rl.s).val < 5
     \/ r.status = 403 /\ Contains("challenge", Lower(r.text))

C10_RateLimitedWithoutPoll ==
  \A k \in 1..Len(attempts) :
    C10_Throttled(attempts[k].sub) =>
      /\ attempts[k].phase = "returned"
      /\ attempts[k].status = "RATE_LIMITED"
      /\ gets[attempts[k].code] = 0

\* C11: a submit response that check_rate_limit does not classify as
\* rate-limited (it returns False) and whose status is not 200 makes
\* test_voucher return ERROR with the status code as detail, and no poll GET
\* is issued.
C11_NotLimited(r) ==
  r.exc = "" /\ check_rate_limit(r).raises = "" /\ ~check_rate_limit(r).limited

C12_NoHandle(r) ==
  /\ r.exc = "" /\ r.status = 200
  /\ r.doc.kind # "invalid"
  /\ ~(r.doc.redirect.t = "str" /\ Contains("async_id=", r.doc.redirect.s))
  /\ ~Truthy(r.doc.async_id)

C12_Outcome(a) ==
  /\ a.phase = "returned"
  /\ a.status = "NO_RESPONSE"
  /\ gets[a.code] = 0
  /\ request_count = 0 /\ last_sleep = NoSleep

C12_Decodable(r) ==
  /\ C11_NotLimited(r)
  /\ r.doc.kind \in {"object", "array"}
  /\ r.doc.redirect.t \in {"absent", "str"}

C13_NonOkPollIsError ==
  \A k \in 1..Len(attempts) :
    ( /\ attempts[k].phase = "returned"
      /\ attempts[k].poll.exc = "" /\ attempts[k].poll.status # 200 )
    => /\ attempts[k].status = "ERROR"
       /\ attempts[k].status # "NO_RESPONSE"

\* C14: an exception raised during the submit or the poll phase makes
\* test_voucher return EXCEPTION with the description of the error as
\* detail, and nothing is sent again: one call issues at most one submit POST
\* and at most one poll GET.
C14_SubmitRaises(r) ==
  \/ r.exc \in {"Timeout", "ConnectionError"}
  \/ /\ r.exc = "" /\ r.status # 429
     /\ r.rl.t = "str" /\ ~PyInt(r.rl.s).ok
  \/ /\ C11_NotLimited(r) /\ r.status = 200
     /\ \/ r.doc.kind \in {"invalid", "null"}
        \/ r.doc.kind = "object" /\ r.doc.redirect.t \notin {"absent", "str"}

C14_PollRaises(p) ==
  \/ p.exc \in {"Timeout", "ConnectionError"}
  \/ /\ p.exc = "" /\ p.status = 200
     /\ \/ p.doc.kind # "object"
        \/ /\ ~Truthy(p.doc.success)
           /\ p.doc.message.t \notin {"absent", "str"}

C14_Description(r, p) ==
  IF r.exc \in {"Timeout", "ConnectionError"} THEN r.exc
  ELSE IF r.rl.t = "str" /\ ~PyInt(r.rl.s).ok THEN "ValueError"
  ELSE IF p.exc = "none"
  THEN (IF r.doc.kind = "invalid" THEN "JSONDecodeError" ELSE "TypeError")
  ELSE IF p.exc \in {"Timeout", "ConnectionError"} THEN p.exc
  ELSE IF p.doc.kind = "invalid" THEN "JSONDecodeError"
  ELSE "AttributeError"

C14_ExceptionNoRetry ==
  \A k \in 1..Len(attempts) :
    /\ posts[attempts[k].code] <= 1
    /\ gets[attempts[k].code] <= 1
    /\ (C14_SubmitRaises(attempts[k].sub) \/ C14_PollRaises(attempts[k].poll))
       => /\ attempts[k].phase = "returned"
          /\ attempts[k].status = "EXCEPTION"
          /\ attempts[k].detail = DError(C14_Description(attempts[k].sub, attempts[k].poll))
          /\ C14_SubmitRaises(attempts[k].sub) => gets[attempts[k].code] = 0

\* the poll GET timed out after a submit that gave a handle
C14_Witness ==
  /\ attempts[1].phase = "returned"
  /\ attempts[1].sub.exc = "" /\ attempts[1].poll.exc = "Timeout"
  /\ attempts[1].status = "EXCEPTION"
  /\ posts[ControlCode] = 1 /\ gets[ControlCode] = 1

\* C15: in concurrent mode a candidate whose worker wrapper raised outside
\* test_voucher is, when the batch returns, counted in results['tested'] and
\* a member of tested_codes, like the candidates whose attempts returned.
C15_BoundaryExceptionRecorded ==
  (AtReturn /\ pc = "threaded") =>
    /\ results.tested = Len(attempts)
    /\ \A k \in 1..Len(attempts) :
         attempts[k].phase = "dropped" => attempts[k].code \in tested_codes

\* C16: in single-worker mode, when the candidate recorded last returned
\* RATE_LIMITED and test_voucher has been entered for the next one, the sleep
\* taken in between was longer than any pacing delay adaptive_delay can
\* return, and the throttle flag has been reset.
C16_LongestPacing == DelayMost + JitterMax

C16_CooldownAfterRateLimited ==
  \A k \in 2..Len(attempts) :
    ( /\ pc = "single" /\ i = k
      /\ attempts[k].phase = "new"
      /\ attempts[k - 1].phase = "recorded"
      /\ attempts[k - 1].status = "RATE_LIMITED" )
    => /\ last_sleep.num > C16_LongestPacing * last_sleep.den
       /\ rate_limited = FALSE

\* C17: a RATE_LIMITED outcome never aborts a batch: in both modes, once an
\* attempt of a running test_batch call has returned RATE_LIMITED, the call
\* goes on to return its result, and when it has returned every entry of the
\* input has been dealt with (none is left queued or in flight) and every
\* candidate of the input is in tested_codes, unless its worker wrapper
\* raised before test_voucher was called.
C17_Limited ==
  /\ pc \in {"single", "threaded"}
  /\ \E k \in 1..Len(attempts) : attempts[k].status = "RATE_LIMITED"

C17_ReturnedAll ==
  /\ pc = "idle"
  /\ \A k \in 1..Len(attempts) : attempts[k].phase \in {"recorded", "skipped", "dropped"}
  /\ \A j \in 1..Len(input) :
       \/ input[j] \in tested_codes
       \/ \E k \in 1..Len(attempts) :
            attempts[k].code = input[j] /\ attempts[k].phase = "dropped"

C17_RateLimitedNeverAborts == C17_Limited ~> C17_ReturnedAll

\* a single-worker batch has returned whose first candidate was rate-limited
\* and whose second was tested after it
C17_Witness ==
  /\ pc = "idle" /\ threads = 1
  /\ Len(attempts) = 2
  /\ attempts[1].status = "RATE_LIMITED" /\ attempts[1].phase = "recorded"
  /\ attempts[2].phase = "recorded" /\ attempts[2].poll.exc = ""

\* C18: a call of test_batch that a user interrupt ends hands its caller the
\* partial result accumulated so far: every step that leaves test_batch, in
\* either mode and after an interrupt too, is a return of the results dict.
C18_InsideCall == {"single", "threaded", "interrupted"}

C18_InterruptReturnsPartialResult ==
  [][(pc \in C18_InsideCall /\ pc' \notin C18_InsideCall) => pc' = "idle"]_vars

\* C19: after a user interrupt of a concurrent run no attempt is started
\* that had not started before it: a job still queued when the interrupt
\* arrives stays queued.
C19_NoStartAfterInterrupt ==
  [][pc = "interrupted" =>
       \A k \in 1..Len(attempts) :
         attempts[k].phase = "queued" => attempts'[k].phase = "queued"]_vars

\* C20: when a concurrent run has ended by a user interrupt, every candidate
\* for which a submit POST was issued during the run is in tested_codes, and
\* no candidate stands twice in the outcome lists.
C20_AllLists ==
  results.SUCCESS \o results.EXPIRED \o results.USED \o results.LIMITED
  \o results.UNKNOWN \o results.NOTFOUND

C20_SubmittedAreTested ==
  (pc = "exited" /\ threads > 1) =>
    /\ \A k \in 1..Len(attempts) :
         attempts[k].sub # NoSubmit => attempts[k].code \in tested_codes
    /\ Distinct(C20_AllLists)

\* C21: in single-worker mode each outcome list holds its candidates in the
\* order in which they first occur in the input: of two neighbours in a list
\* the earlier one occurs first in the input at a smaller position.
C21_FirstAt(c) == CHOOSE j \in 1..Len(input) : input[j] = c /\ \A h \in 1..(j - 1) : input[h] # c

C21_InInputOrder(list) ==
  /\ \A a \in 1..Len(list) : \E j \in 1..Len(input) : input[j] = list[a]
  /\ \A a, b \in 1..Len(list) : a < b => C21_FirstAt(list[a]) < C21_FirstAt(list[b])

C21_RecordingOrderIsInputOrder ==
  (threads = 1 /\ pc \in {"single", "idle"}) =>
    \A t \in {"SUCCESS", "EXPIRED", "USED", "LIMITED", "UNKNOWN", "NOTFOUND"} :
      C21_InInputOrder(results[t])

\* a single-worker batch returns with both candidates of the input <<B, A>>
\* in the EXPIRED list
C21_Witness ==
  /\ threads = 1 /\ AtReturn
  /\ input = <<"B", "A">>
  /\ results.EXPIRED = <<"B", "A">>

\* C24: a SUCCESS is reported when it is recorded: in every state the "VALID
\* CODE FOUND" lines printed so far name exactly the candidates of the SUCCESS
\* list, in the same order; a recorded SUCCESS attempt has its line, and in
\* single-worker mode the line of an earlier SUCCESS is out before a later
\* candidate is submitted.
C24_Printed == {console[n] : n \in 1..Len(console)}

C24_ReportedWhenRecorded ==
  /\ console = results.SUCCESS
  /\ \A k \in 1..Len(attempts) :
       (attempts[k].phase = "recorded" /\ attempts[k].status = "SUCCESS")
         => attempts[k].code \in C24_Printed
  /\ pc = "single" =>
       \A k, j \in 1..Len(attempts) :
         (k < j /\ attempts[k].status = "SUCCESS" /\ attempts[j].sub # NoSubmit)
           => attempts[k].code \in C24_Printed

\* in a concurrent batch the line for the first valid candidate is out while
\* the attempt on the other candidate has returned and is not yet recorded
C24_Witness ==
  /\ pc = "threaded" /\ Len(attempts) = 2
  /\ attempts[1].phase = "recorded" /\ attempts[1].status = "SUCCESS"
  /\ attempts[2].phase = "returned"
  /\ console = <<attempts[1].code>>

\* C22: without jitter the delay computed with N workers is exactly one N-th
\* of the delay computed with one worker at the same request count: as
\* fractions, delay(N) = delay(1) / N.
C22_OneWorker == AdaptiveDelay(request_count, 1)

C22_DelayIsSharedAmongWorkers ==
  last_sleep # NoSleep =>
    last_sleep.num * C22_OneWorker.den * threads = C22_OneWorker.num * last_sleep.den

\* an engine with three workers past the second threshold
C22_Witness ==
  /\ threads = 3
  /\ request_count = MostRequests + 1
  /\ last_sleep = [num |-> DelayMost, den |-> 3]

\* C23: the jitter-free base delay is a non-decreasing step function of the
\* request counter: from one call to the next it never becomes smaller, and
\* it becomes larger exactly when the counter goes from 100 to 101 and from
\* 200 to 201.
C23_Step ==
  (request_count >= 1 /\ request_count' = request_count + 1) =>
    /\ last_sleep'.num >= last_sleep.num
    /\ (last_sleep'.num > last_sleep.num) <=> (request_count \in {ManyRequests, MostRequests})

C23_BaseDelayStepsAtThresholds == [][C23_Step]_vars

\* the counter has gone past both thresholds and the base delay has its
\* third value
C23_Witness ==
  /\ request_count = MostRequests + 2
  /\ last_sleep.num > DelayMany

\* C29: in concurrent mode no session is shared between attempts: the POST
\* and the GET of an attempt go through the session made for that attempt,
\* which holds the cookies of the caller's session; two attempts never have
\* the same session; the caller's session carries no request and is as the
\* caller built it.
C29_Started == {k \in 1..Len(attempts) : attempts[k].phase \notin {"queued", "raised", "dropped"}}

C29_OwnSessionPerAttempt ==
  (threads > 1 /\ pc \in {"threaded", "idle"}) =>
    /\ \A k \in C29_Started :
         /\ attempts[k].session.id \notin {CallerSession.id, NoSession.id}
         /\ attempts[k].session.cookies = CallerCookies
         /\ attempts[k].sub # NoSubmit => attempts[k].post_via = attempts[k].session.id
         /\ attempts[k].poll # NoPoll => attempts[k].get_via = attempts[k].session.id
         /\ attempts[k].post_via # CallerSession.id
         /\ attempts[k].get_via # CallerSession.id
    /\ \A k, j \in C29_Started : k # j => attempts[k].session.id # attempts[j].session.id
    /\ session = CallerSession

\* two attempts of one concurrent batch have both sent their POST and their
\* GET
C29_Witness ==
  /\ pc = "threaded" /\ Len(attempts) = 2
  /\ \A k \in 1..2 : attempts[k].post_via = ToString(k) /\ attempts[k].get_via = ToString(k)

\* C28: in concurrent mode with threads = N at most N attempts are in flight
\* at any moment, and a pool thread runs one attempt at a time: it takes the
\* next job only when the attempt it ran has returned.
C28_AtMostNInFlight ==
  PoolAlive =>
    /\ Cardinality(Running) <= threads
    /\ \A w \in PoolThreads : Cardinality(RunningOn(w)) <= 1
    /\ \A k \in Running : attempts[k].worker \in PoolThreads

\* both threads of the pool are inside an attempt, one before its POST and
\* one between POST and GET, while a third job waits in the queue
C28_Witness ==
  /\ pc = "threaded" /\ threads = 2 /\ Len(attempts) = 3
  /\ attempts[1].phase = "sleep"
  /\ attempts[2].phase = "new"
  /\ attempts[3].phase = "queued"

\* C30: between two consecutive submit POSTs of the same pool thread an
\* adaptive_delay pause is taken, whatever the outcome of the earlier attempt:
\* when a thread has sent the POST of a job, the job it ran before went
\* through the pause of line 124, which precedes the poll GET.
C30_Before(k) ==
  {j \in 1..(k - 1) : attempts[j].worker = attempts[k].worker}

C30_Paused(j) == attempts[j].poll # NoPoll

C30_PauseBetweenSubmits ==
  \A k \in 1..Len(attempts) :
    (attempts[k].worker # NoWorker /\ attempts[k].sub # NoSubmit) =>
      \A j \in C30_Before(k) :
        (\A h \in C30_Before(k) : h <= j) => C30_Paused(j)

\* C25: the request counter loses no update: under every interleaving of the
\* workers the counter equals the number of adaptive_delay calls that have
\* stored their increment, the calls that have read the counter have read
\* pairwise different values, and the counter never decreases.
C25_Stored == {k \in 1..Len(attempts) : attempts[k].at \in {"stored", "counted", "released"}}

C25_HasRead == {k \in 1..Len(attempts) : attempts[k].at \in {"counted", "released"}}

C25_Polls == gets["A"] + gets["B"] + gets[ControlCode]

C25_Exact ==
  /\ request_count =
       C25_Polls + Cardinality({k \in C25_Stored : attempts[k].phase = "sleep"})
  /\ \A k, j \in C25_HasRead : k # j => attempts[k].count # attempts[j].count
  /\ \A k \in C25_HasRead : attempts[k].count \in 1..request_count

C25_NoLostUpdates == [][C25_Exact' /\ request_count' >= request_count]_vars

\* two workers of one batch have both been through adaptive_delay and hold
\* the counter values 1 and 2
C25_Witness ==
  /\ pc = "threaded" /\ Len(attempts) = 2
  /\ attempts[1].at = "released" /\ attempts[2].at = "released"
  /\ {attempts[1].count, attempts[2].count} = {1, 2}
  /\ request_count = 2

\* C26: every read and every write of the request counter and of the throttle
\* flag that a worker performs is made while that worker holds the engine
\* lock: a worker step that changes request_count or rate_limited, or that
\* loads the counter, is taken with the lock held by the worker taking it.
C26_Actor(k) == attempts'[k] # attempts[k] /\ attempts[k].phase \in {"new", "sleep"}

C26_ReadsCounter(k) ==
  attempts'[k].at # attempts[k].at /\ attempts'[k].at \in {"loaded", "counted"}

C26_Step ==
  \A k \in 1..Len(attempts) :
    (/\ Len(attempts') = Len(attempts)
     /\ C26_Actor(k)
     /\ \/ request_count' # request_count
        \/ rate_limited' # rate_limited
        \/ C26_ReadsCounter(k))
      => lock = ToString(k)

C26_SharedStateUnderLock == [][C26_Step]_vars

\* C27: recording is atomic and follows the attempt: whenever the main thread
\* is outside the critical section of _update_results, each attempt of the
\* batch has either all three effects of its recording (counted in
\* results['tested'], in tested_codes, in its outcome list) or none of the
\* effects on the result; an attempt is recorded only after test_voucher has
\* returned for it; and the main thread is inside the section only with the
\* lock in its hands.
C27_Done == {k \in 1..Len(attempts) : attempts[k].phase = "recorded"}

C27_Listed == {k \in C27_Done : attempts[k].status \in ListedStatuses}

C27_InSection == {k \in 1..Len(attempts) : attempts[k].phase = "recording"}

C27_RecordingIsAtomic ==
  /\ C27_InSection # {} => lock = "main"
  /\ \A k \in C27_InSection \cup C27_Done : attempts[k].status # ""
  /\ (pc = "threaded" /\ lock # "main") =>
       /\ results.tested = Cardinality(C27_Done)
       /\ SumOfLists(results) = Cardinality(C27_Listed)
       /\ \A k \in C27_Done : attempts[k].code \in tested_codes

\* one attempt of the batch is recorded, with a valid voucher, while the
\* worker of the other attempt holds the lock inside adaptive_delay
C27_Witness ==
  /\ pc = "threaded" /\ Len(attempts) = 2
  /\ attempts[1].phase = "recorded" /\ attempts[1].status = "SUCCESS"
  /\ attempts[2].phase = "sleep" /\ attempts[2].at = "loaded"
  /\ lock = "2"
  /\ results.tested = 1

\* C31: test_voucher returns RATE_LIMITED only if the submit response has
\* status 429, or its X-RateLimit-Remaining header is below 5, or its status
\* is 403 and its body carries the challenge marker; a status-200 response
\* without a low rate-limit header is never classified RATE_LIMITED.
C31_Grounds(r) ==
  \/ r.status = 429
  \/ r.rl.t # "absent" /\ PyInt(r.rl.s).ok /\ PyInt(r.rl.s).val < 5
  \/ r.status = 403 /\ Contains("challenge", Lower(r.text))

C31_RateLimitedOnlyOnGrounds ==
  \A k \in 1..Len(attempts) :
    attempts[k].status = "RATE_LIMITED" =>
      /\ attempts[k].sub.exc = ""
      /\ C31_Grounds(attempts[k].sub)

\* C32: test_batch terminates in both modes when every network call returns
\* or times out: a call that is running goes on to return, and when it has
\* returned every element of the list it worked on has been attempted or
\* skipped, none is left queued or in flight, and the result counts the
\* recorded attempts.
C32_Running == pc \in {"single", "threaded"}

C32_Returned ==
  /\ pc = "idle"
  /\ Len(attempts) = Len(codes)
  /\ \A k \in 1..Len(attempts) : attempts[k].phase \in {"recorded", "skipped", "dropped"}
  /\ results.tested = Cardinality({k \in 1..Len(attempts) : attempts[k].phase = "recorded"})

C32_TestBatchTerminates == C32_Running ~> C32_Returned

\* a single-worker batch has returned after its first submit timed out and
\* its second element, the same candidate, was skipped
C32_Witness ==
  /\ pc = "idle" /\ threads = 1 /\ Len(attempts) = 2
  /\ attempts[1].sub.exc = "Timeout" /\ attempts[1].phase = "recorded"
  /\ attempts[2].phase = "skipped"

\* C33: a candidate enters the dedup set whatever its outcome: once an attempt
\* that ended RATE_LIMITED, NO_RESPONSE, ERROR or EXCEPTION has been recorded,
\* its candidate is in tested_codes and test_voucher is not called for that
\* candidate again.
C33_Unlisted == {"RATE_LIMITED", "NO_RESPONSE", "ERROR", "EXCEPTION"}

C33_RecordedUnlisted ==
  {attempts[k].code : k \in {j \in 1..Len(attempts) :
      attempts[j].phase = "recorded" /\ attempts[j].status \in C33_Unlisted}}

C33_Step ==
  \A c \in C33_RecordedUnlisted :
    /\ c \in tested_codes
    /\ invoked'[c] = invoked[c]

C33_TestedNeverAttemptedAgain == [][C33_Step]_vars

\* C34: the 'ready' field of the poll response never influences the outcome:
\* an attempt that polled has sent exactly one GET, and the status (and, but
\* for SUCCESS, the detail) of a status-200 poll result with ready = false is
\* the one the success flag and the message give, which is what the same
\* answer with ready = true gives.
C34_Polled == {k \in 1..Len(attempts) : attempts[k].poll # NoPoll}

C34_BySuccessAndMessage(d) ==
  IF Truthy(d.success) THEN "SUCCESS" ELSE ClassifyMessage(d.message.s)

C34_Ready(p) == [p EXCEPT !.doc.ready = JBool(TRUE)]

C34_ReadyIsIgnored ==
  \A k \in C34_Polled :
    /\ gets[attempts[k].code] = 1
    /\ (/\ attempts[k].poll.exc = "" /\ attempts[k].poll.status = 200
        /\ attempts[k].poll.doc.kind = "object"
        /\ attempts[k].poll.doc.ready = JBool(FALSE)) =>
         /\ attempts[k].phase = "returned"
         /\ attempts[k].status = AfterPoll(C34_Ready(attempts[k].poll), attempts[k].async_id).status
         /\ attempts[k].detail = AfterPoll(C34_Ready(attempts[k].poll), attempts[k].async_id).detail
         /\ (Truthy(attempts[k].poll.doc.success) \/ attempts[k].poll.doc.message.t = "str")
              => attempts[k].status = C34_BySuccessAndMessage(attempts[k].poll.doc)

\* the poll was answered 200 with ready = false and success = true, and the
\* attempt returned SUCCESS after its only poll
C34_Witness ==
  /\ attempts[1].poll.exc = "" /\ attempts[1].poll.status = 200
  /\ attempts[1].poll.doc.ready = JBool(FALSE)
  /\ attempts[1].poll.doc.success = JBool(TRUE)
  /\ attempts[1].status = "SUCCESS"
  /\ gets[ControlCode] = 1

\* C35: once session validation has passed, the test command constructs the
\* VoucherTester and runs test_batch over the candidates, and exits with
\* status 0 if results['SUCCESS'] is non-empty and with 1 otherwise: when
\* the command has ended after a passed validation, an engine was
\* constructed, a test_batch call has returned, and the exit status tells
\* whether a valid code was found.
C35_Passed == attempts[1].phase = "returned" /\ SessionValid(attempts[1].status)

C35_TestCommandRunsBatch ==
  (command.exit # -1 /\ C35_Passed) =>
    /\ ~CallRaises(CmdTestKeywords, InitParameters)
    /\ recorded_prior # {}
    /\ command.exit = IF results.SUCCESS # <<>> THEN 0 ELSE 1

\* C36: validate_session reports the session invalid exactly when the control
\* attempt returned ERROR or EXCEPTION; for every other outcome, RATE_LIMITED,
\* NO_RESPONSE and SUCCESS included, it reports the session valid and
\* validate_and_exit_if_invalid lets the run proceed; on an invalid session
\* the process exits with status 1 before the engine is constructed.
C36_Verdict == command.at # "" /\ attempts[1].phase = "returned"

C36_InvalidExactlyOnErrorOrException ==
  C36_Verdict =>
    IF attempts[1].status \in {"ERROR", "EXCEPTION"}
    THEN command = [at |-> "exited", exit |-> 1]
    ELSE /\ attempts[1].status \in
              {"RATE_LIMITED", "NO_RESPONSE", "SUCCESS", "EXPIRED", "USED", "LIMITED",
               "UNKNOWN", "NOTFOUND", "INVALID"}
         /\ command.at \in {"validated", "constructed", "raised"}

\* the control attempt was rate-limited and the run has been let through to
\* the statements after the validation
C36_Witness ==
  /\ attempts[1].status = "RATE_LIMITED"
  /\ command.at = "validated"

\* C37: within one crawl_event call no URL is fetched more than once, a URL
\* is in the visited set from before its fetch on (so a fetch that failed
\* is not repeated when the URL is met again), no page is fetched at a depth
\* greater than max_depth, and the loop of a page follows at most 5 of its
\* subpages.
C37_FetchedOnce ==
  \A j, k \in 1..Len(crawl.fetched) :
    crawl.fetched[j].url = crawl.fetched[k].url => j = k

C37_VisitedBeforeFetch ==
  /\ \A j \in 1..Len(crawl.fetched) : crawl.fetched[j].url \in crawl.visited
  /\ \A k \in 1..Len(crawl.stack) :
       crawl.stack[k].at \in {"fetching", "looping"} =>
         crawl.stack[k].url \in crawl.visited

C37_WithinDepth ==
  /\ \A j \in 1..Len(crawl.fetched) :
       crawl.fetched[j].depth <= crawl.max_depth
  /\ \A k \in 1..Len(crawl.stack) :
       crawl.stack[k].at = "fetching" =>
         crawl.stack[k].depth <= crawl.max_depth

\* idx - 1 is the number of crawl_page calls the loop of a page has made
C37_AtMostFiveFollowed ==
  \A k \in 1..Len(crawl.stack) :
    /\ crawl.stack[k].idx - 1 <= SubpageLimit
    /\ Len(crawl.stack[k].subpages) <= SubpageLimit

C37_CrawlFetchesOnceWithinDepth ==
  /\ C37_FetchedOnce
  /\ C37_VisitedBeforeFetch
  /\ C37_WithinDepth
  /\ C37_AtMostFiveFollowed

\* a page with more than five subpages has had five of them followed, the
\* fetch of a subpage failed and the subpage was met again later, and a page
\* was fetched at depth max_depth
C37_Witness ==
  /\ crawl.at = "crawling"
  /\ \E k \in 1..Len(crawl.stack) :
       /\ crawl.stack[k].idx - 1 = SubpageLimit
       /\ Len(find_subpages(crawl.stack[k].url,
                            Links(crawl.site, crawl.stack[k].url)))
            > SubpageLimit
  /\ \E j \in 1..Len(crawl.fetched) :
       /\ ~crawl.fetched[j].ok
       /\ \E r \in crawl.revisits : r.url = crawl.fetched[j].url
  /\ \E j \in 1..Len(crawl.fetched) :
       crawl.fetched[j].depth = crawl.max_depth

\* C38: every crawl_event call returns, whatever the link graph (cycles and
\* pages linking to themselves included) and whatever max_depth >= 0, when
\* every fetch returns.
C38_CrawlEventTerminates == (crawl.at = "crawling") ~> (crawl.at = "returned")

\* a crawl has returned from a site on which a page links to itself and a
\* page links back to the page it was reached from
C38_Witness ==
  /\ crawl.at = "returned"
  /\ \E r \in crawl.revisits : r.url = r.from
  /\ \E r \in crawl.revisits :
       /\ r.url # r.from
       /\ \E j, k \in 1..Len(crawl.fetched) :
            /\ j < k
            /\ crawl.fetched[j].url = r.url
            /\ crawl.fetched[k].url = r.from

====
